---------------------------- MODULE Spec2Model ----------------------------
(***************************************************************************)
(* A model of the scoring engine of the Audio Fingerprinting Benchmark     *)
(* Toolkit (src/evaluate_matches.py): the result accumulators, the three   *)
(* evaluators and the evaluate() driver.                                   *)
(*                                                                         *)
(* Numbers.  Python's ratios (tp / (tp + fn), means, the F-score) are      *)
(* modelled as exact rationals <<n, d>> in lowest terms with d > 0.  The   *)
(* tempo-scaled lengths (length * (tempo / 100)) are modelled exactly too: *)
(* for lengths below 25 and tempos 1..300 the floor and the ceiling of the *)
(* double-precision product equal those of the exact product.              *)
(*                                                                         *)
(* Intervals.  portion.closedopen(a, b) over integer bounds is the set of  *)
(* unit cells a..b-1; intersection, union and difference are the set       *)
(* operations, the length is the cardinality, and every empty interval is  *)
(* the same value.                                                         *)
(***************************************************************************)
EXTENDS Integers, Sequences, FiniteSets, TLC

VARIABLES
    annotations,   \* main: the loaded annotations, pair -> list of rows
    matches,       \* main: the loaded matches, pair -> list of rows
    level,         \* main: args.level
    pc,            \* main: the position in main / BaseEvaluator.evaluate
    kind,          \* main: the class of the current evaluator
    ev,            \* main: the current evaluator's four result tables
    todo,          \* evaluate: the keys the running for-loop has not visited
    calls,         \* ghost: the _evaluate_pair calls of the current evaluate
    stderr,        \* main: the number of warnings printed to sys.stderr
    fw,            \* main: whether args.output_csv_file is given
    out,           \* main: the rows written to stdout or to the CSV file
    pairIn,        \* pair scoring: the inputs <<annotation, match>>
    pairOut,       \* pair scoring: the three scorers' results
    acc,           \* accumulator: the object under test
    accLog,        \* ghost: the arguments of the adds it received
    accOut,        \* accumulator: the last value get() returned
    fIn,           \* calculate_f_score: the arguments <<recall, precision>>
    fOut,          \* calculate_f_score: the returned value
    rowIn,         \* one segment: the row and the match it is scored against
    rowOut,        \* one segment: what was read and computed from the row
    gen,           \* query generator: the QueryGenerator object's fields
    thread,        \* query generator: each worker's position and its task
    caller,        \* query generator: the main thread's position and locals
    disk,          \* query generator: the files written
    genLog,        \* ghost: the chunk-creation tasks that raised
    filter,        \* track filter: the state of one remove_matches call
    convert        \* conversion: a mapping and the calls made on it

vars == <<annotations, matches, level, pc, kind, ev, todo, calls, stderr,
          fw, out,
          pairIn, pairOut, acc, accLog, accOut, fIn, fOut, rowIn, rowOut,
          gen, thread, caller, disk, genLog, filter, convert>>

mainVars ==
    <<annotations, matches, level, pc, kind, ev, todo, calls, stderr, fw, out>>
pairVars == <<pairIn, pairOut>>
accVars == <<acc, accLog, accOut>>
fVars == <<fIn, fOut>>
rowVars == <<rowIn, rowOut>>
genVars == <<gen, thread, caller, disk, genLog>>
otherVars == <<filter, convert>>

-----------------------------------------------------------------------------
(* Bounds of the model.                                                    *)

\* the time axis of the pair-scoring inputs is 0..MaxT seconds
MaxT == 2
\* the number of adds an accumulator under test receives
MaxAdds == 2
\* the largest count handed to PositivesNegativesResults.add
MaxCount == 1
\* the largest denominator of the ratios handed to the accumulators
MaxDen == 2

-----------------------------------------------------------------------------
(* Exact rationals.                                                        *)

\* the value of an expression that raises ZeroDivisionError
ZeroDivisionError == <<"ZeroDivisionError">>

Raised(x) == Len(x) = 1

RECURSIVE GCD(_, _)
GCD(a, b) == IF b = 0 THEN a ELSE GCD(b, a % b)

Abs_identity(x) == x

Abs(x) == IF x < 0 THEN -x ELSE x

Min(a, b) == IF a <= b THEN a ELSE b

Max_first(a, b) == a

Max(a, b) == IF a >= b THEN a ELSE b

\* the rational n / d, d # 0, in lowest terms
Rat(n, d) ==
    LET g == GCD(Abs(n), Abs(d))
        s == IF d < 0 THEN -1 ELSE 1
    IN  <<(s * n) \div g, (s * d) \div g>>

Int2Rat(n) == <<n, 1>>

RatAdd(x, y) == Rat(x[1] * y[2] + y[1] * x[2], x[2] * y[2])

RatMul(x, y) == Rat(x[1] * y[1], x[2] * y[2])

RatLE(x, y) == x[1] * y[2] <= y[1] * x[2]

RatLT(x, y) == x[1] * y[2] < y[1] * x[2]

\* Python's x / y
RatDiv(x, y) ==
    IF y[1] = 0 THEN ZeroDivisionError ELSE Rat(x[1] * y[2], x[2] * y[1])

\* math.floor and math.ceil
Floor(x) == x[1] \div x[2]

Ceil(x) == -((-x[1]) \div x[2])

RECURSIVE RatSum(_)
RatSum(s) == IF s = <<>> THEN Int2Rat(0) ELSE RatAdd(Head(s), RatSum(Tail(s)))

RECURSIVE IntSum(_)
IntSum(s) == IF s = <<>> THEN 0 ELSE Head(s) + IntSum(Tail(s))


-----------------------------------------------------------------------------
(* Python values held by a CSV row.  A str is a sequence of tokens, each a *)
(* run of characters: a numeric string is written digit by digit, and      *)
(* concatenation is \o.                                                    *)

PyStr(s) == [str |-> s]

PyNone == [none |-> TRUE]

isinstance_str(v) == "str" \in DOMAIN v

\* dict.get(key, default)
DictGet(d, key, default) == IF key \in DOMAIN d THEN d[key] ELSE default

Digits == {"0", "1", "2", "3", "4", "5", "6", "7", "8", "9"}

DigitVal(c) ==
    CASE c = "0" -> 0 [] c = "1" -> 1 [] c = "2" -> 2 [] c = "3" -> 3
      [] c = "4" -> 4 [] c = "5" -> 5 [] c = "6" -> 6 [] c = "7" -> 7
      [] c = "8" -> 8 [] c = "9" -> 9

\* re.match(r'^[+-]?\d+$', s)
MatchesInt(s) ==
    LET body == IF s # <<>> /\ Head(s) \in {"+", "-"} THEN Tail(s) ELSE s
    IN  body # <<>> /\ \A i \in 1..Len(body) : body[i] \in Digits

RECURSIVE DigitsVal(_, _)
DigitsVal(s, a) ==
    IF s = <<>> THEN a ELSE DigitsVal(Tail(s), 10 * a + DigitVal(Head(s)))

\* int(s) of a string that matches the pattern
IntOf(s) ==
    IF Head(s) = "-" THEN -DigitsVal(Tail(s), 0)
    ELSE IF Head(s) = "+" THEN DigitsVal(Tail(s), 0)
    ELSE DigitsVal(s, 0)

get_item_as_int_zero_default(d, key, default) ==
    LET value == DictGet(d, key, PyNone)
    IN  IF isinstance_str(value) /\ MatchesInt(value.str)
        THEN IntOf(value.str) ELSE 0

get_item_as_int(d, key, default) ==
    LET value == DictGet(d, key, PyNone)
    IN  IF isinstance_str(value) /\ MatchesInt(value.str)
        THEN IntOf(value.str) ELSE default

-----------------------------------------------------------------------------
(* Intervals (the portion library, over integer bounds).                   *)

\* portion.closedopen(lower, upper)
closedopen(lower, upper) == {t \in lower..(upper - 1) : TRUE}

\* portion.empty()
P_empty == {}

\* Interval.empty
IsEmpty(x) == x = {}

\* bool(interval): the number of atomic intervals is not zero
IntervalBool(x) == x # {}

get_interval_length(interval) == Cardinality(interval)

-----------------------------------------------------------------------------
(* Module-level functions of evaluate_matches.py.                          *)

calculate_f_score_wrong_weight(recall, precision) ==
    IF RatLT(Int2Rat(0), RatAdd(recall, precision))
    THEN RatDiv(RatMul(Int2Rat(2), RatMul(recall, precision)),
                RatAdd(recall, precision))
    ELSE Int2Rat(0)

calculate_f_score(recall, precision) ==
    IF RatLT(Int2Rat(0), RatAdd(recall, precision))
    THEN RatDiv(RatMul(Int2Rat(10), RatMul(recall, precision)),
                RatAdd(RatMul(Int2Rat(9), recall), precision))
    ELSE Int2Rat(0)

round_towards_target_floor(value, target) == Floor(value)

round_towards_target(value, target) ==
    IF RatLT(value, Int2Rat(target)) THEN Ceil(value) ELSE Floor(value)


-----------------------------------------------------------------------------
(* The tag classifier.                                                     *)

\* math.ceil / math.floor of the converted thresholds 0.93 and 0.79
MIN_PITCH_SMALL == -125
MAX_PITCH_SMALL == 125
MIN_PITCH_MEDIUM == -408
MAX_PITCH_MEDIUM == 408
MIN_TEMPO_SMALL == 93
MAX_TEMPO_SMALL == 107
MIN_TEMPO_MEDIUM == 79
MAX_TEMPO_MEDIUM == 126

\* bool(v) of a row value
Truthy(v) == isinstance_str(v) /\ v.str # <<>>

\* str(v) of a row value, as f'{v}' formats it
StrOf(v) == IF isinstance_str(v) THEN v.str ELSE <<"None">>

\* a tag: the literal prefix followed by the value
Tag(prefix, value) == <<prefix>> \o value

TempoPitchTags_no_speed_exact(tempo, pitch) ==
    (IF tempo = 100
     THEN IF pitch = 0 THEN <<Tag("pitch:", <<"exact">>)>>
          ELSE IF MIN_PITCH_SMALL <= pitch /\ pitch <= MAX_PITCH_SMALL
               THEN <<Tag("pitch:", <<"small">>)>>
          ELSE IF MIN_PITCH_MEDIUM <= pitch /\ pitch <= MAX_PITCH_MEDIUM
               THEN <<Tag("pitch:", <<"medium">>)>>
          ELSE <<Tag("pitch:", <<"large">>)>>
     ELSE <<>>)
    \o
    (IF pitch = 0
     THEN IF tempo = 100
          THEN <<Tag("tempo:", <<"exact">>)>>
          ELSE IF MIN_TEMPO_SMALL <= tempo /\ tempo <= MAX_TEMPO_SMALL
               THEN <<Tag("tempo:", <<"small">>)>>
          ELSE IF MIN_TEMPO_MEDIUM <= tempo /\ tempo <= MAX_TEMPO_MEDIUM
               THEN <<Tag("tempo:", <<"medium">>)>>
          ELSE <<Tag("tempo:", <<"large">>)>>
     ELSE <<>>)
    \o
    (IF tempo # 100 /\ pitch # 0
     THEN IF MIN_TEMPO_SMALL <= tempo /\ tempo <= MAX_TEMPO_SMALL
          THEN <<Tag("speed:", <<"small">>)>>
          ELSE IF MIN_TEMPO_MEDIUM <= tempo /\ tempo <= MAX_TEMPO_MEDIUM
               THEN <<Tag("speed:", <<"medium">>)>>
          ELSE <<Tag("speed:", <<"large">>)>>
     ELSE <<>>)

TempoPitchTags_strict_small(tempo, pitch) ==
    (IF tempo = 100
     THEN IF pitch = 0 THEN <<Tag("pitch:", <<"exact">>)>>
          ELSE IF MIN_PITCH_SMALL < pitch /\ pitch < MAX_PITCH_SMALL
               THEN <<Tag("pitch:", <<"small">>)>>
          ELSE IF MIN_PITCH_MEDIUM <= pitch /\ pitch <= MAX_PITCH_MEDIUM
               THEN <<Tag("pitch:", <<"medium">>)>>
          ELSE <<Tag("pitch:", <<"large">>)>>
     ELSE <<>>)
    \o
    (IF pitch = 0
     THEN IF tempo = 100
          THEN <<Tag("tempo:", <<"exact">>), Tag("speed:", <<"exact">>)>>
          ELSE IF MIN_TEMPO_SMALL < tempo /\ tempo < MAX_TEMPO_SMALL
               THEN <<Tag("tempo:", <<"small">>)>>
          ELSE IF MIN_TEMPO_MEDIUM <= tempo /\ tempo <= MAX_TEMPO_MEDIUM
               THEN <<Tag("tempo:", <<"medium">>)>>
          ELSE <<Tag("tempo:", <<"large">>)>>
     ELSE <<>>)
    \o
    (IF tempo # 100 /\ pitch # 0
     THEN IF MIN_TEMPO_SMALL < tempo /\ tempo < MAX_TEMPO_SMALL
          THEN <<Tag("speed:", <<"small">>)>>
          ELSE IF MIN_TEMPO_MEDIUM <= tempo /\ tempo <= MAX_TEMPO_MEDIUM
               THEN <<Tag("speed:", <<"medium">>)>>
          ELSE <<Tag("speed:", <<"large">>)>>
     ELSE <<>>)

TempoPitchTags(tempo, pitch) ==
    (IF tempo = 100
     THEN IF pitch = 0 THEN <<Tag("pitch:", <<"exact">>)>>
          ELSE IF MIN_PITCH_SMALL <= pitch /\ pitch <= MAX_PITCH_SMALL
               THEN <<Tag("pitch:", <<"small">>)>>
          ELSE IF MIN_PITCH_MEDIUM <= pitch /\ pitch <= MAX_PITCH_MEDIUM
               THEN <<Tag("pitch:", <<"medium">>)>>
          ELSE <<Tag("pitch:", <<"large">>)>>
     ELSE <<>>)
    \o
    (IF pitch = 0
     THEN IF tempo = 100
          THEN <<Tag("tempo:", <<"exact">>), Tag("speed:", <<"exact">>)>>
          ELSE IF MIN_TEMPO_SMALL <= tempo /\ tempo <= MAX_TEMPO_SMALL
               THEN <<Tag("tempo:", <<"small">>)>>
          ELSE IF MIN_TEMPO_MEDIUM <= tempo /\ tempo <= MAX_TEMPO_MEDIUM
               THEN <<Tag("tempo:", <<"medium">>)>>
          ELSE <<Tag("tempo:", <<"large">>)>>
     ELSE <<>>)
    \o
    (IF tempo # 100 /\ pitch # 0
     THEN IF MIN_TEMPO_SMALL <= tempo /\ tempo <= MAX_TEMPO_SMALL
          THEN <<Tag("speed:", <<"small">>)>>
          ELSE IF MIN_TEMPO_MEDIUM <= tempo /\ tempo <= MAX_TEMPO_MEDIUM
               THEN <<Tag("speed:", <<"medium">>)>>
          ELSE <<Tag("speed:", <<"large">>)>>
     ELSE <<>>)

FlagTag(annotation, key, name) ==
    IF get_item_as_int(annotation, key, 0) # 0 THEN <<<<name>>>> ELSE <<>>

NoiseTags(annotation) ==
    LET noise_type == DictGet(annotation, "noise_type", PyStr(<<>>))
        noise_color == DictGet(annotation, "noise_color", PyStr(<<>>))
        noise_snr == DictGet(annotation, "noise_snr", PyStr(<<>>))
    IN  (IF noise_type = PyStr(<<"sample">>)
         THEN <<Tag("noise:", <<"sample">>)>>
         ELSE IF Truthy(noise_color)
              THEN <<Tag("noise:", noise_color.str)>>
         ELSE <<Tag("noise:", <<"none">>)>>)
        \o
        (IF noise_snr # PyStr(<<>>)
         THEN <<Tag("noise:", StrOf(noise_snr) \o <<"dB">>)>>
         ELSE <<>>)

MergeTags(annotation) ==
    LET prev == DictGet(annotation, "merge_prev", PyStr(<<"begin">>))
        next == DictGet(annotation, "merge_next", PyStr(<<"end">>))
        merge_prev == IF Truthy(prev) THEN prev.str ELSE <<"begin">>
        merge_next == IF Truthy(next) THEN next.str ELSE <<"end">>
    IN  <<Tag("merge_prev:", merge_prev), Tag("merge_next:", merge_next)>>

get_tags_from_annotation(annotation) ==
    TempoPitchTags(get_item_as_int(annotation, "tempo", 100),
                   get_item_as_int(annotation, "pitch", 0))
    \o FlagTag(annotation, "echo_delay", "echo")
    \o FlagTag(annotation, "high_pass", "high-pass")
    \o FlagTag(annotation, "low_pass", "low-pass")
    \o FlagTag(annotation, "reverb", "reverb")
    \o NoiseTags(annotation)
    \o MergeTags(annotation)

\* the set of the elements of a list
Range(s) == {s[i] : i \in 1..Len(s)}

-----------------------------------------------------------------------------
(* The result accumulators.                                                *)

\* RecallPrecisionResults()
NewRecallPrecisionResults ==
    [recalls |-> <<>>, precisions |-> <<>>, tags |-> {}]

\* PositivesNegativesResults()
NewPositivesNegativesResults ==
    [recalls |-> <<>>, precisions |-> <<>>, tags |-> {},
     tp |-> 0, up |-> 0, fp |-> 0, fn |-> 0]

\* RecallPrecisionResults.add
RP_add(self, recall, precision, tags) ==
    [self EXCEPT !.recalls = Append(@, recall),
                 !.precisions = Append(@, precision),
                 !.tags = @ \cup tags]

RP_get_precision_default_zero(self) ==
    LET recall ==
            IF self.recalls # <<>>
            THEN RatDiv(RatSum(self.recalls), Int2Rat(Len(self.recalls)))
            ELSE Int2Rat(0)
        precision ==
            IF self.precisions # <<>>
            THEN RatDiv(RatSum(self.precisions),
                        Int2Rat(Len(self.precisions)))
            ELSE Int2Rat(0)
    IN  <<recall, precision, calculate_f_score(recall, precision)>>

\* RecallPrecisionResults.get
RP_get(self) ==
    LET recall ==
            IF self.recalls # <<>>
            THEN RatDiv(RatSum(self.recalls), Int2Rat(Len(self.recalls)))
            ELSE Int2Rat(0)
        precision ==
            IF self.precisions # <<>>
            THEN RatDiv(RatSum(self.precisions),
                        Int2Rat(Len(self.precisions)))
            ELSE Int2Rat(1)
    IN  <<recall, precision, calculate_f_score(recall, precision)>>

PN_add_swapped(self, tp, up, fp, fn, tags) ==
    LET recall ==
            IF tp + fn > 0
            THEN RatDiv(Int2Rat(tp), Int2Rat(tp + fn)) ELSE Int2Rat(0)
        precision ==
            IF tp + fp > 0
            THEN RatDiv(Int2Rat(tp), Int2Rat(tp + fp)) ELSE Int2Rat(1)
    IN  [RP_add(self, recall, precision, tags)
            EXCEPT !.tp = @ + tp, !.up = @ + up, !.fp = @ + fn, !.fn = @ + fp]

PN_add_unguarded(self, tp, up, fp, fn, tags) ==
    LET recall == RatDiv(Int2Rat(tp), Int2Rat(tp + fn))
        precision == RatDiv(Int2Rat(tp), Int2Rat(tp + fp))
    IN  [RP_add(self, recall, precision, tags)
            EXCEPT !.tp = @ + tp, !.up = @ + up, !.fp = @ + fp, !.fn = @ + fn]

\* PositivesNegativesResults.add
PN_add(self, tp, up, fp, fn, tags) ==
    LET recall ==
            IF tp + fn > 0
            THEN RatDiv(Int2Rat(tp), Int2Rat(tp + fn)) ELSE Int2Rat(0)
        precision ==
            IF tp + fp > 0
            THEN RatDiv(Int2Rat(tp), Int2Rat(tp + fp)) ELSE Int2Rat(1)
    IN  [RP_add(self, recall, precision, tags)
            EXCEPT !.tp = @ + tp, !.up = @ + up, !.fp = @ + fp, !.fn = @ + fn]

\* PositivesNegativesResults.get
PN_get(self) == RP_get(self) \o <<self.tp, self.up, self.fp, self.fn>>


-----------------------------------------------------------------------------
(* The pairwise scorers.  A converted row carries reference_interval and   *)
(* query_interval beside its CSV fields.                                   *)

Overlaps_mixed_axes(a, m) ==
    <<a.reference_interval \cap m.query_interval,
      a.query_interval \cap m.reference_interval>>

\* overlaps[m][a]
Overlaps(a, m) ==
    <<a.reference_interval \cap m.reference_interval,
      a.query_interval \cap m.query_interval>>

BothOverlap_either_axis(a, m) ==
    ~IsEmpty(Overlaps(a, m)[1]) \/ ~IsEmpty(Overlaps(a, m)[2])

\* not overlaps[m][a][0].empty and not overlaps[m][a][1].empty
BothOverlap(a, m) ==
    ~IsEmpty(Overlaps(a, m)[1]) /\ ~IsEmpty(Overlaps(a, m)[2])

\* the union, over the rows of others that overlap x on both axes, of the
\* overlaps on one axis (1: reference, 2: query)
OverlapUnion(x, others, axis) ==
    UNION {Overlaps(x, others[i])[axis] :
              i \in {j \in 1..Len(others) : BothOverlap(x, others[j])}}

\* sum([get_interval_length(x[field]) for x in rows])
TotalLength(rows, axis) ==
    IntSum([i \in 1..Len(rows) |->
              get_interval_length(IF axis = 1 THEN rows[i].reference_interval
                                  ELSE rows[i].query_interval)])

CoveredLength_sum(xs, others, axis) ==
    IntSum([i \in 1..Len(xs) |->
              IntSum([j \in 1..Len(others) |->
                        IF BothOverlap(xs[i], others[j])
                        THEN get_interval_length(Overlaps(xs[i], others[j])[axis])
                        ELSE 0])])

\* the accumulated length of the unions of the rows of xs with others
CoveredLength(xs, others, axis) ==
    IntSum([i \in 1..Len(xs) |->
              get_interval_length(OverlapUnion(xs[i], others, axis))])

TrackScore_fp_fn_swapped(annotation, match) ==
    LET b_annotation == annotation # <<>>
        b_match == match # <<>>
    IN  [tp |-> IF b_annotation /\ b_match THEN 1 ELSE 0,
         up |-> 0,
         fp |-> IF b_annotation /\ ~b_match THEN 1 ELSE 0,
         fn |-> IF ~b_annotation /\ b_match THEN 1 ELSE 0]

\* TrackEvaluator._evaluate_pair: the counts
TrackScore(annotation, match) ==
    LET b_annotation == annotation # <<>>
        b_match == match # <<>>
    IN  [tp |-> IF b_annotation /\ b_match THEN 1 ELSE 0,
         up |-> 0,
         fp |-> IF ~b_annotation /\ b_match THEN 1 ELSE 0,
         fn |-> IF b_annotation /\ ~b_match THEN 1 ELSE 0]

RatioOr_always_default(overlap, total, default) == Int2Rat(default)

\* overlap / total if total else default
RatioOr(overlap, total, default) ==
    IF total # 0 THEN RatDiv(Int2Rat(overlap), Int2Rat(total))
    ELSE Int2Rat(default)

\* BoundingBoxSegmentEvaluator._evaluate_pair: recall
BBoxRecall(annotation, match) ==
    RatMul(RatMul(Int2Rat(1),
                  RatioOr(CoveredLength(annotation, match, 1),
                          TotalLength(annotation, 1), 0)),
           RatioOr(CoveredLength(annotation, match, 2),
                   TotalLength(annotation, 2), 0))

BBoxPrecision_default_zero(annotation, match) ==
    RatMul(RatMul(Int2Rat(1),
                  RatioOr(CoveredLength(match, annotation, 1),
                          TotalLength(match, 1), 0)),
           RatioOr(CoveredLength(match, annotation, 2),
                   TotalLength(match, 2), 0))

\* BoundingBoxSegmentEvaluator._evaluate_pair: precision
BBoxPrecision(annotation, match) ==
    RatMul(RatMul(Int2Rat(1),
                  RatioOr(CoveredLength(match, annotation, 1),
                          TotalLength(match, 1), 1)),
           RatioOr(CoveredLength(match, annotation, 2),
                   TotalLength(match, 2), 1))

BBoxScore(annotation, match) ==
    [recall |-> BBoxRecall(annotation, match),
     precision |-> BBoxPrecision(annotation, match)]

\* get_item_as_int(row, FIELD_ANNOTATION_TEMPO, 100) / 100
TempoOf(row) == RatDiv(Int2Rat(get_item_as_int(row, "tempo", 100)), Int2Rat(100))

\* length * tempo
Scaled(length, tempo) == RatMul(Int2Rat(length), tempo)

LengthAnnotationPart_fn_sum(a, match) ==
    LET tempo == TempoOf(a)
        overlap_reference_union == OverlapUnion(a, match, 1)
        overlap_query_union == OverlapUnion(a, match, 2)
        annotation_reference_length == get_interval_length(a.reference_interval)
        overlap_reference_length == get_interval_length(overlap_reference_union)
        overlap_query_length ==
            round_towards_target(
                Scaled(get_interval_length(overlap_query_union), tempo),
                annotation_reference_length)
        missing_reference_length ==
            get_interval_length(a.reference_interval \ overlap_reference_union)
        missing_query_length ==
            round_towards_target(
                Scaled(get_interval_length(a.query_interval
                                               \ overlap_query_union), tempo),
                0)
    IN  [tp |-> Min(overlap_reference_length, overlap_query_length),
         fn |-> missing_reference_length + missing_query_length,
         overlap_reference_length |-> overlap_reference_length,
         overlap_query_length |-> overlap_query_length,
         missing_reference_length |-> missing_reference_length,
         missing_query_length |-> missing_query_length]

\* LengthSegmentEvaluator._evaluate_pair: one iteration of the annotation loop
LengthAnnotationPart(a, match) ==
    LET tempo == TempoOf(a)
        overlap_reference_union == OverlapUnion(a, match, 1)
        overlap_query_union == OverlapUnion(a, match, 2)
        annotation_reference_length == get_interval_length(a.reference_interval)
        overlap_reference_length == get_interval_length(overlap_reference_union)
        overlap_query_length ==
            round_towards_target(
                Scaled(get_interval_length(overlap_query_union), tempo),
                annotation_reference_length)
        missing_reference_union == a.reference_interval \ overlap_reference_union
        missing_query_union == a.query_interval \ overlap_query_union
        missing_reference_length == get_interval_length(missing_reference_union)
        missing_query_length ==
            round_towards_target(
                Scaled(get_interval_length(missing_query_union), tempo), 0)
    IN  [tp |-> Min(overlap_reference_length, overlap_query_length),
         fn |-> Max(missing_reference_length, missing_query_length),
         overlap_reference_length |-> overlap_reference_length,
         overlap_query_length |-> overlap_query_length,
         missing_reference_length |-> missing_reference_length,
         missing_query_length |-> missing_query_length]

RECURSIVE MatchTempoLoop_both_axes(_, _, _, _)
MatchTempoLoop_both_axes(m, annotation, a, tempo) ==
    IF a > Len(annotation) THEN tempo
    ELSE MatchTempoLoop_both_axes(m, annotation, a + 1,
                                  IF BothOverlap(annotation[a], m)
                                  THEN TempoOf(annotation[a]) ELSE tempo)

\* the tempo the match loop ends with: the inner loop over the annotations
RECURSIVE MatchTempoLoop(_, _, _, _)
MatchTempoLoop(m, annotation, a, tempo) ==
    IF a > Len(annotation) THEN tempo
    ELSE MatchTempoLoop(m, annotation, a + 1,
                        IF IntervalBool(Overlaps(annotation[a], m)[2])
                        THEN TempoOf(annotation[a]) ELSE tempo)

LengthMatchPart_query_union_both_axes(m, annotation) ==
    LET match_reference_length == get_interval_length(m.reference_interval)
        match_query_length == get_interval_length(m.query_interval)
        tempo ==
            MatchTempoLoop(m, annotation, 1,
                           RatioOr(match_reference_length, match_query_length, 1))
        overlap_reference_union == OverlapUnion(m, annotation, 1)
        overlap_query_only_union == OverlapUnion(m, annotation, 2)
        overlap_reference_length == get_interval_length(overlap_reference_union)
        overlap_query_only_length ==
            round_towards_target(
                Scaled(get_interval_length(overlap_query_only_union), tempo),
                match_reference_length)
        overlap_length == Max(overlap_reference_length, overlap_query_only_length)
        unknown_length == Abs(overlap_reference_length - overlap_query_only_length)
        surplus_reference_length == Max(0, match_reference_length - overlap_length)
        surplus_query_length ==
            round_towards_target(Scaled(match_query_length, tempo),
                                 match_reference_length)
            - overlap_query_only_length
    IN  [up |-> unknown_length,
         fp |-> Max(surplus_reference_length, surplus_query_length),
         tempo |-> tempo,
         overlap_reference_length |-> overlap_reference_length,
         overlap_query_only_length |-> overlap_query_only_length]

\* LengthSegmentEvaluator._evaluate_pair: one iteration of the match loop
LengthMatchPart(m, annotation) ==
    LET match_reference_length == get_interval_length(m.reference_interval)
        match_query_length == get_interval_length(m.query_interval)
        tempo ==
            MatchTempoLoop(m, annotation, 1,
                           RatioOr(match_reference_length, match_query_length, 1))
        overlap_reference_union == OverlapUnion(m, annotation, 1)
        overlap_query_only_union ==
            UNION {Overlaps(annotation[a], m)[2] : a \in 1..Len(annotation)}
        overlap_reference_length == get_interval_length(overlap_reference_union)
        overlap_query_only_length ==
            round_towards_target(
                Scaled(get_interval_length(overlap_query_only_union), tempo),
                match_reference_length)
        overlap_length == Max(overlap_reference_length, overlap_query_only_length)
        unknown_length == Abs(overlap_reference_length - overlap_query_only_length)
        surplus_reference_length == Max(0, match_reference_length - overlap_length)
        surplus_query_length ==
            round_towards_target(Scaled(match_query_length, tempo),
                                 match_reference_length)
            - overlap_query_only_length
    IN  [up |-> unknown_length,
         fp |-> Max(surplus_reference_length, surplus_query_length),
         tempo |-> tempo,
         overlap_reference_length |-> overlap_reference_length,
         overlap_query_only_length |-> overlap_query_only_length]

\* LengthSegmentEvaluator._evaluate_pair: the counts
LengthScore(annotation, match) ==
    LET as == [a \in 1..Len(annotation) |->
                  LengthAnnotationPart(annotation[a], match)]
        ms == [m \in 1..Len(match) |-> LengthMatchPart(match[m], annotation)]
    IN  [tp |-> IntSum([a \in 1..Len(annotation) |-> as[a].tp]),
         up |-> IntSum([m \in 1..Len(match) |-> ms[m].up]),
         fp |-> IntSum([m \in 1..Len(match) |-> ms[m].fp]),
         fn |-> IntSum([a \in 1..Len(annotation) |-> as[a].fn])]


-----------------------------------------------------------------------------
(* The evaluators: the four result tables and the store at the end of      *)
(* _evaluate_pair.                                                         *)

TOTAL == <<"TOTAL">>

\* TrackEvaluator(), BoundingBoxSegmentEvaluator(), LengthSegmentEvaluator():
\* three empty defaultdicts and the global accumulator
NewEvaluator(k) ==
    [pair_results |-> <<>>, ref_results |-> <<>>, tag_results |-> <<>>,
     all_results |-> IF k = "BoundingBox" THEN NewRecallPrecisionResults
                     ELSE NewPositivesNegativesResults]

\* the add of the evaluator's accumulator class
AccAdd(k, self, score, tags) ==
    IF k = "BoundingBox"
    THEN RP_add(self, score.recall, score.precision, tags)
    ELSE PN_add(self, score.tp, score.up, score.fp, score.fn, tags)

TableAdd_overwrite(k, table, key, score, tags) ==
    [x \in DOMAIN table \cup {key} |->
        IF x = key THEN AccAdd(k, NewEvaluator(k).all_results, score, tags)
        ELSE table[x]]

\* table[key].add(...) on a defaultdict
TableAdd(k, table, key, score, tags) ==
    LET old == IF key \in DOMAIN table THEN table[key]
               ELSE NewEvaluator(k).all_results
    IN  [x \in DOMAIN table \cup {key} |->
            IF x = key THEN AccAdd(k, old, score, tags) ELSE table[x]]

\* the tags of every annotation segment, in the order the loops visit them
RECURSIVE AllTags(_)
AllTags(annotation) ==
    IF annotation = <<>> THEN <<>>
    ELSE get_tags_from_annotation(Head(annotation)) \o AllTags(Tail(annotation))

RECURSIVE TagAdds(_, _, _, _)
TagAdds(k, table, tags, score) ==
    IF tags = <<>> THEN table
    ELSE TagAdds(k, TableAdd(k, table, Head(tags), score, {Head(tags)}),
                 Tail(tags), score)

\* the scorer of each evaluator class
Score(k, annotation, match) ==
    CASE k = "Track" -> TrackScore(annotation, match)
      [] k = "BoundingBox" -> BBoxScore(annotation, match)
      [] k = "Length" -> LengthScore(annotation, match)

Store_first_tags_only(k, e, pair, score, annotation) ==
    [pair_results |->
        TableAdd(k, e.pair_results, pair, score,
                 IF annotation # <<>>
                 THEN Range(get_tags_from_annotation(annotation[1])) ELSE {}),
     ref_results |-> TableAdd(k, e.ref_results, pair[2], score, {}),
     tag_results |->
        TagAdds(k, e.tag_results,
                IF annotation # <<>>
                THEN get_tags_from_annotation(annotation[1]) ELSE <<>>, score),
     all_results |-> AccAdd(k, e.all_results, score, {TOTAL})]

Store_ref_by_query(k, e, pair, score, annotation) ==
    [pair_results |->
        TableAdd(k, e.pair_results, pair, score,
                 IF annotation # <<>>
                 THEN Range(get_tags_from_annotation(annotation[1])) ELSE {}),
     ref_results |-> TableAdd(k, e.ref_results, pair[1], score, {}),
     tag_results |-> TagAdds(k, e.tag_results, AllTags(annotation), score),
     all_results |-> AccAdd(k, e.all_results, score, {TOTAL})]

\* "store the results" of _evaluate_pair
Store(k, e, pair, score, annotation) ==
    [pair_results |->
        TableAdd(k, e.pair_results, pair, score,
                 IF annotation # <<>>
                 THEN Range(get_tags_from_annotation(annotation[1])) ELSE {}),
     ref_results |-> TableAdd(k, e.ref_results, pair[2], score, {}),
     tag_results |-> TagAdds(k, e.tag_results, AllTags(annotation), score),
     all_results |-> AccAdd(k, e.all_results, score, {TOTAL})]

EvaluatePair_tags_of_match(k, e, pair, annotation, match) ==
    Store(k, e, pair, Score(k, annotation, match),
          IF annotation = <<>> THEN match ELSE annotation)

\* _evaluate_pair of the evaluator class k
EvaluatePair(k, e, pair, annotation, match) ==
    Store(k, e, pair, Score(k, annotation, match), annotation)

\* the pairs of the model: two queries of one reference, two references of
\* one query
P1 == <<"q1", "r1">>
P2 == <<"q2", "r1">>
P3 == <<"q1", "r2">>

ThePair == P1

-----------------------------------------------------------------------------
(* Pair scoring: one _evaluate_pair call of a fresh segment-level          *)
(* evaluator on converted rows over the time axis 0..MaxT.                 *)

\* portion.closedopen(lower, upper) for 0 <= lower <= upper <= MaxT
Intervals == {closedopen(lo, hi) : lo \in 0..MaxT, hi \in 0..MaxT}

\* the tempo strings of the annotation rows
TempoStrings == {<<"5", "0">>, <<"1", "0", "0">>, <<"2", "0", "0">>}

AnnotationRows ==
    {[reference_interval |-> r, query_interval |-> q, tempo |-> PyStr(t)] :
        r \in Intervals, q \in Intervals, t \in TempoStrings}

MatchRows ==
    {[reference_interval |-> r, query_interval |-> q] :
        r \in Intervals, q \in Intervals}

\* lists of at most n rows
ListsUpTo(S, n) == UNION {[1..k -> S] : k \in 0..n}

\* the whole time axis
Whole == closedopen(0, MaxT)

\* a row whose two ranges are not empty
Proper(x) == x.reference_interval # {} /\ x.query_interval # {}

\* the inputs: any annotation against any match (or none of either); an
\* annotation over the whole of both axes against any two matches; any two
\* proper annotations against a match over the whole of both axes
PairInputs ==
    (ListsUpTo(AnnotationRows, 1) \X ListsUpTo(MatchRows, 1))
    \cup ({<<a>> : a \in {x \in AnnotationRows :
                            /\ x.reference_interval = Whole
                            /\ x.query_interval = Whole}}
          \X [1..2 -> MatchRows])
    \cup ([1..2 -> {x \in AnnotationRows : Proper(x)}]
          \X {<<[reference_interval |-> Whole, query_interval |-> Whole]>>})

\* the inputs of the Length evaluator on its own: those, two proper
\* annotations with equal reference and query intervals against any proper
\* match, and no annotation against any two matches
LengthInputs ==
    PairInputs
    \cup ({<<>>} \X [1..2 -> MatchRows])
    \cup ([1..2 -> {x \in AnnotationRows :
                      Proper(x) /\ x.reference_interval = x.query_interval}]
          \X [1..1 -> {x \in MatchRows : Proper(x)}])

\* _evaluate_pair of a fresh evaluator of class k
PairScore(k) ==
    /\ pairOut.kind = "None"
    /\ pairOut' = [kind |-> k,
                   ev |-> EvaluatePair(k, NewEvaluator(k), ThePair,
                                       pairIn.annotation, pairIn.match)]
    /\ UNCHANGED <<pairIn, mainVars, accVars, fVars, rowVars, genVars, otherVars>>

TrackEvaluatePair == PairScore("Track")

BBoxEvaluatePair == PairScore("BoundingBox")

LengthEvaluatePair == PairScore("Length")

IdleMain ==
    /\ annotations = <<>> /\ matches = <<>> /\ level = "None" /\ pc = "None"
    /\ kind = "None" /\ ev = NewEvaluator("Track") /\ todo = {}
    /\ calls = <<>> /\ stderr = 0 /\ fw = FALSE /\ out = <<>>

IdlePair ==
    /\ pairIn = [annotation |-> <<>>, match |-> <<>>]
    /\ pairOut = [kind |-> "None", ev |-> NewEvaluator("Track")]

IdleAcc ==
    /\ acc = [class |-> "None", obj |-> NewRecallPrecisionResults]
    /\ accLog = <<>>
    /\ accOut = <<>>

IdleF == fIn = <<>> /\ fOut = <<>>

IdleRow ==
    /\ rowIn = <<>>
    /\ rowOut = [ints |-> <<>>, tags |-> <<>>, length |-> <<>>]

IdleGen ==
    /\ gen = [num_threads |-> 0, queue |-> PyNone,
              error_in_thread |-> PyNone, annotations |-> <<>>]
    /\ thread = <<>>
    /\ caller = [pc |-> "None", dry_run |-> FALSE, num_queries |-> 0,
                 query_index |-> 0, num_chunks |-> 0, chunk_index |-> 0,
                 exception |-> PyNone]
    /\ disk = [chunks |-> {}, queries |-> {}, annotation_file |-> <<>>]
    /\ genLog = {}

IdleFilter ==
    filter = [pc |-> "None", rows |-> <<>>, track_list |-> {},
              tracks |-> {}, matches |-> <<>>,
              counts |-> <<>>, keys |-> <<>>, reference_id |-> "None",
              iter |-> {}, changed |-> FALSE, exception |-> "None"]

IdleConvert ==
    convert = [pc |-> "None", items |-> <<>>, first |-> PyNone,
               previous |-> <<>>, calls |-> 0]

IdleOther == IdleFilter /\ IdleConvert

InitPair ==
    /\ IdleMain /\ IdleAcc /\ IdleF /\ IdleRow /\ IdleGen /\ IdleOther
    /\ \E in \in PairInputs : pairIn = [annotation |-> in[1], match |-> in[2]]
    /\ pairOut = [kind |-> "None", ev |-> NewEvaluator("Track")]

NextPair == TrackEvaluatePair \/ BBoxEvaluatePair \/ LengthEvaluatePair

SpecPair == InitPair /\ [][NextPair]_vars

\* one _evaluate_pair call of a fresh LengthSegmentEvaluator alone
InitLength ==
    /\ IdleMain /\ IdleAcc /\ IdleF /\ IdleRow /\ IdleGen /\ IdleOther
    /\ \E in \in LengthInputs : pairIn = [annotation |-> in[1], match |-> in[2]]
    /\ pairOut = [kind |-> "None", ev |-> NewEvaluator("Track")]

NextLength == LengthEvaluatePair

SpecLength == InitLength /\ [][NextLength]_vars


-----------------------------------------------------------------------------
(* The accumulators on their own: adds and get() on one object.            *)

\* the ratios n / d with 0 <= n <= d <= m
Ratios(m) ==
    {Rat(x[1], x[2]) : x \in {y \in (0..m) \X (1..m) : y[1] <= y[2]}}

\* the counts handed to PositivesNegativesResults.add
Counts == 0..MaxCount

SampleTags == {{}, {TOTAL}}

InitAcc ==
    /\ IdleMain /\ IdlePair /\ IdleF /\ IdleRow /\ IdleGen /\ IdleOther
    /\ \/ acc = [class |-> "RecallPrecisionResults",
                 obj |-> NewRecallPrecisionResults]
       \/ acc = [class |-> "PositivesNegativesResults",
                 obj |-> NewPositivesNegativesResults]
    /\ accLog = <<>>
    /\ accOut = <<>>

\* RecallPrecisionResults.add(recall, precision, tags)
RecallPrecisionAdd ==
    /\ acc.class = "RecallPrecisionResults"
    /\ Len(accLog) < MaxAdds
    /\ \E recall \in Ratios(MaxDen), precision \in Ratios(MaxDen),
          tags \in SampleTags :
          /\ acc' = [acc EXCEPT !.obj = RP_add(@, recall, precision, tags)]
          /\ accLog' = Append(accLog, [recall |-> recall,
                                       precision |-> precision, tags |-> tags])
    /\ accOut' = <<>>
    /\ UNCHANGED <<mainVars, pairVars, fVars, rowVars, genVars, otherVars>>

\* PositivesNegativesResults.add(tp, up, fp, fn, tags)
PositivesNegativesAdd ==
    /\ acc.class = "PositivesNegativesResults"
    /\ Len(accLog) < MaxAdds
    /\ \E tp \in Counts, up \in {0, MaxCount}, fp \in Counts, fn \in Counts :
          /\ acc' = [acc EXCEPT !.obj = PN_add(@, tp, up, fp, fn, {TOTAL})]
          /\ accLog' = Append(accLog, [tp |-> tp, up |-> up, fp |-> fp,
                                       fn |-> fn, tags |-> {TOTAL}])
    /\ accOut' = <<>>
    /\ UNCHANGED <<mainVars, pairVars, fVars, rowVars, genVars, otherVars>>

\* get()
AccGet ==
    /\ accOut = <<>>
    /\ accOut' = IF acc.class = "RecallPrecisionResults"
                 THEN RP_get(acc.obj) ELSE PN_get(acc.obj)
    /\ UNCHANGED <<acc, accLog, mainVars, pairVars, fVars, rowVars, genVars, otherVars>>

NextAcc == RecallPrecisionAdd \/ PositivesNegativesAdd \/ AccGet

SpecAcc == InitAcc /\ [][NextAcc]_vars

-----------------------------------------------------------------------------
(* calculate_f_score on its own.                                           *)

\* the largest denominator of the arguments of calculate_f_score
MaxFDen == 6

InitF ==
    /\ IdleMain /\ IdlePair /\ IdleAcc /\ IdleRow /\ IdleGen /\ IdleOther
    /\ fIn \in Ratios(MaxFDen) \X Ratios(MaxFDen)
    /\ fOut = <<>>

CalculateFScore ==
    /\ fOut = <<>>
    /\ fOut' = <<calculate_f_score(fIn[1], fIn[2])>>
    /\ UNCHANGED <<fIn, mainVars, pairVars, accVars, rowVars, genVars, otherVars>>

NextF == CalculateFScore

SpecF == InitF /\ [][NextF]_vars


-----------------------------------------------------------------------------
(* One segment on its own: what get_item_as_int reads from its row, the    *)
(* tags get_tags_from_annotation gives it, and its Length score.           *)

\* a field the row does not have
Absent == [absent |-> TRUE]

\* str(n) of a digit
DigitChar(n) == CHOOSE c \in Digits : DigitVal(c) = n

\* str(n) of a natural number
RECURSIVE NatString(_)
NatString(n) ==
    IF n < 10 THEN <<DigitChar(n)>>
    ELSE NatString(n \div 10) \o <<DigitChar(n % 10)>>

\* str(n) of an integer, as a CSV file holds it
IntString(n) == IF n < 0 THEN <<"-">> \o NatString(-n) ELSE NatString(n)

\* the row of a segment over the whole of both axes with the fields given
RowOf(fields) ==
    [k \in {x \in DOMAIN fields : fields[x] # Absent}
           \cup {"reference_interval", "query_interval"} |->
        IF k \in {"reference_interval", "query_interval"} THEN Whole
        ELSE fields[k]]

\* tempo values at and around the band bounds
TempoValues ==
    {0, 50, 78, 79, 80, 92, 93, 94, 99, 100, 101, 106, 107, 108, 125, 126,
     127, 200}

\* pitch values at and around the band bounds
PitchValues ==
    {-500, -409, -408, -407, -126, -125, -124, -1, 0, 1, 124, 125, 126, 407,
     408, 409, 500}

\* values of a field that are no integer: a missing cell, the empty string,
\* a word, a decimal fraction
NonIntegers ==
    {PyNone, PyStr(<<>>), PyStr(<<"fast">>), PyStr(<<"1", ".", "5">>)}

\* rows with integer tempo and pitch
NumericRows ==
    {RowOf([tempo |-> t, pitch |-> p]) :
        t \in {PyStr(IntString(n)) : n \in TempoValues} \cup {Absent},
        p \in {PyStr(IntString(n)) : n \in PitchValues} \cup {Absent}}

\* rows whose integer fields may be missing or hold no integer
MalformedRows ==
    {RowOf([tempo |-> t, pitch |-> p, echo_delay |-> e, high_pass |-> h,
            low_pass |-> l, reverb |-> r]) :
        t \in NonIntegers \cup {Absent, PyStr(<<"2", "0", "0">>)},
        p \in {Absent, PyNone, PyStr(<<"x">>), PyStr(<<"-", "2", "0", "0">>)},
        e \in {Absent, PyStr(<<"x">>), PyStr(<<"1">>), PyStr(<<"0">>)},
        h \in {Absent, PyStr(<<"1", "e", "3">>)},
        l \in {Absent, PyStr(<<"+", "5">>)},
        r \in {Absent, PyNone, PyStr(<<"5">>)}}

\* rows with noise and merge fields
CategoricalRows ==
    {RowOf([noise_type |-> nt, noise_color |-> nc, noise_snr |-> ns,
            merge_prev |-> mp, merge_next |-> mn]) :
        nt \in {Absent, PyNone, PyStr(<<>>), PyStr(<<"sample">>)},
        nc \in {Absent, PyNone, PyStr(<<>>), PyStr(<<"white">>)},
        ns \in {Absent, PyNone, PyStr(<<>>), PyStr(<<"1", "0">>)},
        mp \in {Absent, PyStr(<<>>), PyStr(<<"fade">>)},
        mn \in {Absent, PyNone, PyStr(<<"concat">>)}}

\* the match list the segment is scored against: none, or a match of the
\* whole query axis and the first second of the reference axis
RowMatches ==
    {<<>>, <<[reference_interval |-> closedopen(0, 1), query_interval |-> Whole]>>}

\* the integer fields and their defaults
IntFields ==
    [tempo |-> 100, pitch |-> 0, echo_delay |-> 0, high_pass |-> 0,
     low_pass |-> 0, reverb |-> 0]

InitRow ==
    /\ IdleMain /\ IdlePair /\ IdleAcc /\ IdleF /\ IdleGen /\ IdleOther
    /\ rowIn \in (NumericRows \cup MalformedRows \cup CategoricalRows)
                    \X RowMatches
    /\ rowOut = [ints |-> <<>>, tags |-> <<>>, length |-> <<>>]

\* get_item_as_int(row, key, default) of every integer field
GetItemAsInt ==
    /\ rowOut.ints = <<>>
    /\ rowOut' = [rowOut EXCEPT !.ints =
                     <<[k \in DOMAIN IntFields |->
                          get_item_as_int(rowIn[1], k, IntFields[k])]>>]
    /\ UNCHANGED <<rowIn, mainVars, pairVars, accVars, fVars, genVars, otherVars>>

\* get_tags_from_annotation(row)
GetTagsFromAnnotation ==
    /\ rowOut.tags = <<>>
    /\ rowOut' = [rowOut EXCEPT !.tags = <<get_tags_from_annotation(rowIn[1])>>]
    /\ UNCHANGED <<rowIn, mainVars, pairVars, accVars, fVars, genVars, otherVars>>

\* the counts LengthSegmentEvaluator._evaluate_pair gives the row
LengthEvaluateRow ==
    /\ rowOut.length = <<>>
    /\ rowOut' = [rowOut EXCEPT !.length = <<LengthScore(<<rowIn[1]>>, rowIn[2])>>]
    /\ UNCHANGED <<rowIn, mainVars, pairVars, accVars, fVars, genVars, otherVars>>

NextRow == GetItemAsInt \/ GetTagsFromAnnotation \/ LengthEvaluateRow

SpecRow == InitRow /\ [][NextRow]_vars

-----------------------------------------------------------------------------
(* main(): the loaded rows.                                                *)

\* a CSV row: the range columns and the parameter columns
Row(reference_begin, reference_end, query_begin, query_end, params) ==
    [f \in {"reference_begin", "reference_end", "query_begin", "query_end"}
           \cup DOMAIN params |->
        CASE f = "reference_begin" -> PyStr(reference_begin)
          [] f = "reference_end" -> PyStr(reference_end)
          [] f = "query_begin" -> PyStr(query_begin)
          [] f = "query_end" -> PyStr(query_end)
          [] OTHER -> params[f]]

\* reference [10, 20), query [0, 10), unmodified
A1 == Row(<<"1", "0">>, <<"2", "0">>, <<"0">>, <<"1", "0">>,
          [tempo |-> PyStr(<<"1", "0", "0">>), pitch |-> PyStr(<<"0">>)])

\* reference [0, 4), query [10, 12), twice as fast, with white noise
A2 == Row(<<"0">>, <<"4">>, <<"1", "0">>, <<"1", "2">>,
          [tempo |-> PyStr(<<"2", "0", "0">>), pitch |-> PyStr(<<"0">>),
           noise_color |-> PyStr(<<"white">>), noise_snr |-> PyStr(<<"0">>)])

\* reference [5, 9), query [0, 4), a malformed tempo
A3 == Row(<<"5">>, <<"9">>, <<"0">>, <<"4">>,
          [tempo |-> PyStr(<<"fast">>), pitch |-> PyStr(<<"3", "0", "0">>)])

\* the ranges of A1
M1 == Row(<<"1", "0">>, <<"2", "0">>, <<"0">>, <<"1", "0">>, <<>>)

\* reference [12, 22), query [2, 12), with parameters of its own
M2 == Row(<<"1", "2">>, <<"2", "2">>, <<"2">>, <<"1", "2">>,
          [noise_color |-> PyStr(<<"pink">>), noise_snr |-> PyStr(<<"7">>)])

\* a reference_end that is no number
M3 == Row(<<"5">>, <<"x">>, <<"0">>, <<"4">>, <<>>)

\* a row of a file that has no range columns
A4 == [tempo |-> PyStr(<<"1", "0", "0">>), pitch |-> PyStr(<<"0">>)]

\* what the two files hold for each pair: <<annotation rows, match rows>>
PairData(pair) ==
    CASE pair = P1 -> {<<>>, <<A1>>, <<A1, A2>>} \X {<<>>, <<M1>>, <<M2, M1>>}
      [] pair = P2 -> {<<>>, <<A2>>} \X {<<>>, <<M2>>}
      [] pair = P3 -> {<<<<>>, <<>>>>, <<<<A3>>, <<>>>>, <<<<>>, <<M1>>>>,
                       <<<<A3>>, <<M3>>>>, <<<<A4>>, <<M1>>>>}

\* load_annotations_or_matches: a pair is a key when the file has a row for it
Loaded(data, side) ==
    [pair \in {p \in DOMAIN data : data[p][side] # <<>>} |-> data[pair][side]]

Levels == {"files", "seconds", "all"}

Init ==
    /\ IdlePair /\ IdleAcc /\ IdleF /\ IdleRow /\ IdleGen /\ IdleOther
    /\ \E d1 \in PairData(P1), d2 \in PairData(P2), d3 \in PairData(P3) :
          LET data == [p \in {P1, P2, P3} |->
                          IF p = P1 THEN d1 ELSE IF p = P2 THEN d2 ELSE d3]
          IN  /\ annotations = Loaded(data, 1)
              /\ matches = Loaded(data, 2)
    /\ level \in Levels
    /\ pc = "start"
    /\ kind = "None"
    /\ ev = NewEvaluator("Track")
    /\ todo = {}
    /\ calls = <<>>
    /\ stderr = 0
    /\ fw \in BOOLEAN
    /\ out = <<>>

-----------------------------------------------------------------------------
(* convert_segment_ranges.                                                 *)

RangeFields == {"reference_begin", "reference_end", "query_begin", "query_end"}

\* int(elem[field]) returns: the column exists and holds a number
Convertible(elem) ==
    \A f \in RangeFields :
        /\ f \in DOMAIN elem
        /\ isinstance_str(elem[f])
        /\ MatchesInt(elem[f].str)

\* the two assignments of the loop body
ConvertElem(elem) ==
    [f \in DOMAIN elem \cup {"reference_interval", "query_interval"} |->
        CASE f = "reference_interval" ->
                closedopen(IntOf(elem["reference_begin"].str),
                           IntOf(elem["reference_end"].str))
          [] f = "query_interval" ->
                closedopen(IntOf(elem["query_begin"].str),
                           IntOf(elem["query_end"].str))
          [] OTHER -> elem[f]]

\* the rows of one key, converted up to the first row that raises
RECURSIVE ConvertList(_)
ConvertList(elems) ==
    IF elems = <<>> THEN <<>>
    ELSE IF Convertible(Head(elems))
         THEN <<ConvertElem(Head(elems))>> \o ConvertList(Tail(elems))
    ELSE elems

GoodKeys(items) ==
    {k \in DOMAIN items : \A i \in 1..Len(items[k]) : Convertible(items[k][i])}

\* What a call can leave behind, [ok, items], on a dict whose first key
\* is first: ok is FALSE when it raised.  A call that raises does so at
\* the first key with a bad row, after it converted the keys before it.
ConvertOutcomesFrom(items, first) ==
    IF "reference_interval" \in {first[1], first[2]}
    THEN {[ok |-> TRUE, items |-> items]}
    ELSE IF GoodKeys(items) = DOMAIN items
    THEN {[ok |-> TRUE,
           items |-> [k \in DOMAIN items |-> ConvertList(items[k])]]}
    ELSE UNION {
           {[ok |-> FALSE,
             items |-> [k \in DOMAIN items |->
                          IF k \in before \cup {bad}
                          THEN ConvertList(items[k]) ELSE items[k]]] :
               before \in {b \in SUBSET GoodKeys(items) :
                             first \in b \cup {bad}}}
           : bad \in DOMAIN items \ GoodKeys(items)}

\* The dict's order is the files' row order: first is any of its keys.
ConvertOutcomes(items) ==
    IF DOMAIN items = {} THEN {[ok |-> TRUE, items |-> items]}
    ELSE UNION {ConvertOutcomesFrom(items, first) : first \in DOMAIN items}

-----------------------------------------------------------------------------
(* output_results: the order of sorted() on strings and on tuples of       *)
(* strings, and the rows written.                                          *)

\* the characters of the strings of the model, in code point order
Alphabet ==
    <<"+", "-", ".", "0", "1", "2", "3", "4", "5", "6", "7", "8", "9", ":",
      "A", "B", "L", "N", "O", "T", "_", "a", "b", "c", "d", "e", "f", "g",
      "h", "i", "k", "l", "m", "n", "o", "p", "q", "r", "s", "t", "u", "v",
      "w", "x">>

\* ord(c), up to an order-preserving renumbering
Ord(c) == CHOOSE i \in 1..Len(Alphabet) : Alphabet[i] = c

\* the characters of a token
Spell(token) ==
    CASE token = "q1" -> <<"q", "1">>
      [] token = "q2" -> <<"q", "2">>
      [] token = "r1" -> <<"r", "1">>
      [] token = "r2" -> <<"r", "2">>
      [] token = "TOTAL" -> <<"T", "O", "T", "A", "L">>
      [] token = "None" -> <<"N", "o", "n", "e">>
      [] token = "dB" -> <<"d", "B">>
      [] token = "pitch:" -> <<"p", "i", "t", "c", "h", ":">>
      [] token = "tempo:" -> <<"t", "e", "m", "p", "o", ":">>
      [] token = "speed:" -> <<"s", "p", "e", "e", "d", ":">>
      [] token = "noise:" -> <<"n", "o", "i", "s", "e", ":">>
      [] token = "merge_prev:" -> <<"m", "e", "r", "g", "e", "_", "p", "r", "e", "v", ":">>
      [] token = "merge_next:" -> <<"m", "e", "r", "g", "e", "_", "n", "e", "x", "t", ":">>
      [] token = "exact" -> <<"e", "x", "a", "c", "t">>
      [] token = "small" -> <<"s", "m", "a", "l", "l">>
      [] token = "medium" -> <<"m", "e", "d", "i", "u", "m">>
      [] token = "large" -> <<"l", "a", "r", "g", "e">>
      [] token = "echo" -> <<"e", "c", "h", "o">>
      [] token = "high-pass" -> <<"h", "i", "g", "h", "-", "p", "a", "s", "s">>
      [] token = "low-pass" -> <<"l", "o", "w", "-", "p", "a", "s", "s">>
      [] token = "reverb" -> <<"r", "e", "v", "e", "r", "b">>
      [] token = "sample" -> <<"s", "a", "m", "p", "l", "e">>
      [] token = "none" -> <<"n", "o", "n", "e">>
      [] token = "white" -> <<"w", "h", "i", "t", "e">>
      [] token = "pink" -> <<"p", "i", "n", "k">>
      [] token = "begin" -> <<"b", "e", "g", "i", "n">>
      [] token = "end" -> <<"e", "n", "d">>
      [] token = "fade" -> <<"f", "a", "d", "e">>
      [] token = "concat" -> <<"c", "o", "n", "c", "a", "t">>
      [] token = "fast" -> <<"f", "a", "s", "t">>
      [] token = "x" -> <<"x">>
      [] token = "+" -> <<"+">>
      [] token = "-" -> <<"-">>
      [] token = "." -> <<".">>
      [] token = "0" -> <<"0">>
      [] token = "1" -> <<"1">>
      [] token = "2" -> <<"2">>
      [] token = "3" -> <<"3">>
      [] token = "4" -> <<"4">>
      [] token = "5" -> <<"5">>
      [] token = "6" -> <<"6">>
      [] token = "7" -> <<"7">>
      [] token = "8" -> <<"8">>
      [] token = "9" -> <<"9">>
      [] token = "e" -> <<"e">>

\* the characters of a string given as its tokens
RECURSIVE Text(_)
Text(s) == IF s = <<>> THEN <<>> ELSE Spell(Head(s)) \o Text(Tail(s))

\* s < t of two str, given as their characters
RECURSIVE StrLess(_, _)
StrLess(s, t) ==
    IF t = <<>> THEN FALSE
    ELSE IF s = <<>> THEN TRUE
    ELSE IF Head(s) # Head(t) THEN Ord(Head(s)) < Ord(Head(t))
    ELSE StrLess(Tail(s), Tail(t))

\* a < b of two tags
TagLess(a, b) == StrLess(Text(a), Text(b))

\* a < b of two track ids
IdLess(a, b) == StrLess(Spell(a), Spell(b))

\* p < q of two (query_id, reference_id) tuples
PairLess(p, q) == IdLess(p[1], q[1]) \/ (p[1] = q[1] /\ IdLess(p[2], q[2]))

\* the elements of a set as a list
RECURSIVE SetToSeq(_)
SetToSeq(S) ==
    IF S = {} THEN <<>>
    ELSE LET x == CHOOSE y \in S : TRUE
         IN  <<x>> \o SetToSeq(S \ {x})

sorted_pairs_descending(keys) ==
    SortSeq(SetToSeq(keys), LAMBDA p, q : PairLess(q, p))

\* sorted(self._pair_results)
sorted_pairs(keys) == SortSeq(SetToSeq(keys), PairLess)

\* sorted(self._ref_results)
sorted_ids(keys) == SortSeq(SetToSeq(keys), IdLess)

\* sorted(self._tag_results), sorted(self._tags)
sorted_tags(keys) == SortSeq(SetToSeq(keys), TagLess)

\* print(name) / write_row(writer, query_id, reference_id) of an accumulator
ResultRow(k, group, key, x) ==
    [group |-> group, key |-> key,
     values |-> IF k = "BoundingBox" THEN RP_get(x) ELSE PN_get(x),
     tags |-> sorted_tags(x.tags)]

\* a line without results: the title, the CSV header, the blank line
TextRow(group, key) ==
    [group |-> group, key |-> key, values |-> <<>>, tags |-> <<>>]

\* the title main gives each evaluator's results
Title(k) ==
    CASE k = "Track" -> <<"Track results">>
      [] k = "BoundingBox" -> <<"Bounding Box Segment results">>
      [] k = "Length" -> <<"Length Segment results">>

\* output_results(title, fw): the lines written, in order
OutputRows(k, e, csv) ==
    LET pairs == sorted_pairs(DOMAIN e.pair_results)
        refs == sorted_ids(DOMAIN e.ref_results)
        tags == sorted_tags(DOMAIN e.tag_results)
    IN  <<TextRow("title", Title(k))>>
        \o (IF csv THEN <<TextRow("header", <<>>)>> ELSE <<>>)
        \o [i \in 1..Len(pairs) |->
               ResultRow(k, "pair", pairs[i], e.pair_results[pairs[i]])]
        \o [i \in 1..Len(refs) |->
               ResultRow(k, "ref", <<refs[i]>>, e.ref_results[refs[i]])]
        \o [i \in 1..Len(tags) |->
               ResultRow(k, "tag", tags[i], e.tag_results[tags[i]])]
        \o <<ResultRow(k, "total", <<>>, e.all_results)>>
        \o <<TextRow("blank", <<>>)>>

-----------------------------------------------------------------------------
(* main() and BaseEvaluator.evaluate.                                      *)

\* evaluator = <class>(); evaluator.evaluate(annotations, matches): up to
\* the first for-loop
BeginEvaluate(k) ==
    /\ kind' = k
    /\ ev' = NewEvaluator(k)
    /\ pc' = "for_matches"
    /\ todo' = DOMAIN matches
    /\ calls' = <<>>

\* self._evaluate_pair(pair, annotation, match)
Call(pair, annotation, match) ==
    /\ ev' = EvaluatePair(kind, ev, pair, annotation, match)
    /\ calls' = Append(calls, [pair |-> pair, annotation |-> annotation,
                               match |-> match])

\* main: "run the file-level evaluator"
Start ==
    /\ pc = "start"
    /\ IF level \in {"files", "all"}
       THEN BeginEvaluate("Track")
       ELSE /\ pc' = "segments"
            /\ UNCHANGED <<kind, ev, todo, calls>>
    /\ UNCHANGED <<fw, out, annotations, matches, level,
                   stderr, pairVars, accVars,
                   fVars, rowVars, genVars, otherVars>>

ForMatches_skip_unannotated ==
    /\ pc = "for_matches"
    /\ \E pair \in todo :
          /\ IF pair \in DOMAIN annotations
             THEN Call(pair, annotations[pair], matches[pair])
             ELSE UNCHANGED <<ev, calls>>
          /\ todo' = todo \ {pair}
    /\ UNCHANGED <<fw, out, annotations, matches, level,
                   pc, kind, stderr, pairVars,
                   accVars, fVars, rowVars, genVars, otherVars>>

\* evaluate: one iteration of "for pair in matches"
ForMatches ==
    /\ pc = "for_matches"
    /\ \E pair \in todo :
          /\ IF pair \in DOMAIN annotations
             THEN Call(pair, annotations[pair], matches[pair])
             ELSE Call(pair, <<>>, matches[pair])
          /\ todo' = todo \ {pair}
    /\ UNCHANGED <<fw, out, annotations, matches, level,
                   pc, kind, stderr, pairVars,
                   accVars, fVars, rowVars, genVars, otherVars>>

\* evaluate: the first loop ends, the second begins
ForMatchesEnd ==
    /\ pc = "for_matches"
    /\ todo = {}
    /\ pc' = "for_annotations"
    /\ todo' = DOMAIN annotations
    /\ UNCHANGED <<fw, out, annotations, matches, level,
                   kind, ev, calls, stderr,
                   pairVars, accVars, fVars, rowVars, genVars, otherVars>>

ForAnnotations_every_pair ==
    /\ pc = "for_annotations"
    /\ \E pair \in todo :
          /\ Call(pair, annotations[pair], <<>>)
          /\ todo' = todo \ {pair}
    /\ UNCHANGED <<fw, out, annotations, matches, level,
                   pc, kind, stderr, pairVars,
                   accVars, fVars, rowVars, genVars, otherVars>>

\* evaluate: one iteration of "for pair in annotations"
ForAnnotations ==
    /\ pc = "for_annotations"
    /\ \E pair \in todo :
          /\ IF pair \notin DOMAIN matches
             THEN Call(pair, annotations[pair], <<>>)
             ELSE UNCHANGED <<ev, calls>>
          /\ todo' = todo \ {pair}
    /\ UNCHANGED <<fw, out, annotations, matches, level,
                   pc, kind, stderr, pairVars,
                   accVars, fVars, rowVars, genVars, otherVars>>

\* evaluate returns
ForAnnotationsEnd ==
    /\ pc = "for_annotations"
    /\ todo = {}
    /\ pc' = "output"
    /\ UNCHANGED <<fw, out, annotations, matches, level,
                   kind, ev, todo, calls, stderr,
                   pairVars, accVars, fVars, rowVars, genVars, otherVars>>

\* evaluator.output_results(title, fw), and main up to its next call
OutputResults ==
    /\ pc = "output"
    /\ CASE kind = "Track" ->
              /\ pc' = IF level = "all" THEN "segments" ELSE "close"
              /\ UNCHANGED <<kind, ev, todo, calls>>
         [] kind = "BoundingBox" -> BeginEvaluate("Length")
         [] kind = "Length" ->
              /\ pc' = "close"
              /\ UNCHANGED <<kind, ev, todo, calls>>
    /\ out' = out \o OutputRows(kind, ev, fw)
    /\ UNCHANGED <<fw, annotations, matches, level, stderr, pairVars,
                   accVars, fVars, rowVars, genVars, otherVars>>

ConvertSegmentRanges_unguarded ==
    /\ pc = "segments"
    /\ \E m \in ConvertOutcomes(matches), a \in ConvertOutcomes(annotations) :
          /\ matches' = m.items
          /\ annotations' = a.items
    /\ BeginEvaluate("BoundingBox")
    /\ UNCHANGED <<fw, out, level, stderr, pairVars, accVars, fVars, rowVars, genVars, otherVars>>

\* main: the try block of "run the segment-level evaluators"
ConvertSegmentRanges ==
    /\ pc = "segments"
    /\ \E m \in ConvertOutcomes(matches) :
          /\ matches' = m.items
          /\ IF m.ok
             THEN \E a \in ConvertOutcomes(annotations) :
                     /\ annotations' = a.items
                     /\ IF a.ok
                        THEN /\ BeginEvaluate("BoundingBox")
                             /\ UNCHANGED stderr
                        ELSE /\ stderr' = stderr + 1
                             /\ pc' = "returned"
                             /\ UNCHANGED <<kind, ev, todo, calls>>
             ELSE /\ stderr' = stderr + 1
                  /\ pc' = "returned"
                  /\ UNCHANGED <<annotations, kind, ev, todo, calls>>
    /\ UNCHANGED <<fw, out, level, pairVars, accVars, fVars, rowVars, genVars, otherVars>>

\* main: fw.close() and the return
Close ==
    /\ pc = "close"
    /\ pc' = "returned"
    /\ UNCHANGED <<fw, out, annotations, matches, level,
                   kind, ev, todo, calls, stderr,
                   pairVars, accVars, fVars, rowVars, genVars, otherVars>>

Next ==
    \/ Start
    \/ ForMatches
    \/ ForMatchesEnd
    \/ ForAnnotations
    \/ ForAnnotationsEnd
    \/ OutputResults
    \/ ConvertSegmentRanges
    \/ Close

Spec == Init /\ [][Next]_vars

-----------------------------------------------------------------------------
(* generate_query_audios.py: the worker threads of QueryGenerator, the     *)
(* queue of chunk-creation tasks, generate_queries and main.  Each step of *)
(* a thread is one action; the queue's operations are atomic (the queue    *)
(* holds a lock), and so is the assignment of an attribute.                *)

\* the largest args.threads
MaxThreads == 2
\* the largest args.num_queries, the number of chunks asked for
MaxQueries == 4

\* the least number of chunks of a query file
MinChunks == 3

\* queue.Queue(): the items and the count of tasks not yet done
NewQueue == [items |-> <<>>, unfinished_tasks |-> 0]

\* functools.partial(self._create_chunk, chunk, codec, sample_rate,
\* query_index)
Task(query_index, chunk_index) == [query |-> query_index, chunk |-> chunk_index]

\* the exception a task raises
Error(task) == [error |-> task]

Threads == 1..Len(thread)

InitGen ==
    /\ IdleMain /\ IdlePair /\ IdleAcc /\ IdleF /\ IdleRow /\ IdleOther
    /\ \E n \in 0..MaxThreads :
          gen = [num_threads |-> n, queue |-> PyNone,
                 error_in_thread |-> PyNone, annotations |-> <<>>]
    /\ thread = <<>>
    /\ \E dry_run \in BOOLEAN, num_queries \in 1..MaxQueries :
          caller = [pc |-> "create_threads", dry_run |-> dry_run,
                    num_queries |-> num_queries, query_index |-> 0,
                    num_chunks |-> 0, chunk_index |-> 0, exception |-> PyNone]
    /\ disk = [chunks |-> {}, queries |-> {}, annotation_file |-> <<>>]
    /\ genLog = {}

\* main: g.create_threads()
CreateThreads ==
    /\ caller.pc = "create_threads"
    /\ gen' = [gen EXCEPT !.queue = NewQueue]
    /\ thread' = [t \in 1..gen.num_threads |-> [pc |-> "get", task |-> PyNone]]
    /\ caller' = [caller EXCEPT !.pc = "generate_queries"]
    /\ UNCHANGED <<disk, genLog, mainVars, pairVars, accVars, fVars, rowVars, otherVars>>

\* generate_queries, up to the while loop
GenerateQueries ==
    /\ caller.pc = "generate_queries"
    /\ gen' = [gen EXCEPT !.error_in_thread = PyNone]
    /\ caller' = [caller EXCEPT !.pc = "while", !.query_index = 0]
    /\ UNCHANGED <<thread, disk, genLog, mainVars, pairVars, accVars, fVars,
                   rowVars, otherVars>>

\* while num_queries > 0: the number of chunks of the next query file, or
\* the return to main
While ==
    /\ caller.pc = "while"
    /\ IF caller.num_queries > 0
       THEN \E num_chunks \in MinChunks..Max(MinChunks, caller.num_queries) :
               caller' = [caller EXCEPT
                             !.pc = "chunks",
                             !.num_chunks = num_chunks,
                             !.num_queries = caller.num_queries - num_chunks,
                             !.chunk_index = 0]
       ELSE caller' = [caller EXCEPT !.pc = "write_annotations"]
    /\ UNCHANGED <<gen, thread, disk, genLog, mainVars, pairVars, accVars,
                   fVars, rowVars, otherVars>>

\* one iteration of "for chunk_index in range(num_chunks)": the queue
\* exists, so a task is never run by the main thread
PutChunk ==
    /\ caller.pc = "chunks"
    /\ gen' = IF caller.dry_run THEN gen
              ELSE [gen EXCEPT
                       !.queue.items =
                           Append(@, Task(caller.query_index,
                                          caller.chunk_index)),
                       !.queue.unfinished_tasks = @ + 1]
    /\ caller' = [caller EXCEPT
                     !.chunk_index = @ + 1,
                     !.pc = IF caller.chunk_index + 1 = caller.num_chunks
                            THEN "join" ELSE "chunks"]
    /\ UNCHANGED <<thread, disk, genLog, mainVars, pairVars, accVars, fVars,
                   rowVars, otherVars>>

QueueJoin_no_wait ==
    /\ caller.pc = "join"
    /\ caller' = [caller EXCEPT !.pc = "check"]
    /\ UNCHANGED <<gen, thread, disk, genLog, mainVars, pairVars, accVars,
                   fVars, rowVars, otherVars>>

\* self._queue.join() returns: every task put so far is done
QueueJoin ==
    /\ caller.pc = "join"
    /\ gen.queue.unfinished_tasks = 0
    /\ caller' = [caller EXCEPT !.pc = "check"]
    /\ UNCHANGED <<gen, thread, disk, genLog, mainVars, pairVars, accVars,
                   fVars, rowVars, otherVars>>

\* if self._error_in_thread: raise self._error_in_thread; the exception
\* leaves generate_queries and takes main to its finally clause
CheckError ==
    /\ caller.pc = "check"
    /\ caller' = IF gen.error_in_thread # PyNone
                 THEN [caller EXCEPT !.pc = "finally",
                                     !.exception = gen.error_in_thread]
                 ELSE [caller EXCEPT !.pc = "merge"]
    /\ UNCHANGED <<gen, thread, disk, genLog, mainVars, pairVars, accVars,
                   fVars, rowVars, otherVars>>

\* self._create_query(...) unless dry_run, self._add_query_annotations(...)
\* and query_index += 1
CreateQuery ==
    /\ caller.pc = "merge"
    /\ disk' = IF caller.dry_run THEN disk
               ELSE [disk EXCEPT !.queries = @ \cup {caller.query_index}]
    /\ gen' = [gen EXCEPT !.annotations = Append(@, caller.query_index)]
    /\ caller' = [caller EXCEPT !.pc = "while", !.query_index = @ + 1]
    /\ UNCHANGED <<thread, genLog, mainVars, pairVars, accVars, fVars,
                   rowVars, otherVars>>

\* main: g.write_annotations(args.annotation_file)
WriteAnnotations ==
    /\ caller.pc = "write_annotations"
    /\ disk' = [disk EXCEPT !.annotation_file = <<gen.annotations>>]
    /\ caller' = [caller EXCEPT !.pc = "finally"]
    /\ UNCHANGED <<gen, thread, genLog, mainVars, pairVars, accVars, fVars,
                   rowVars, otherVars>>

\* the n-element list of None that join_threads puts
RECURSIVE Nones(_)
Nones(n) == IF n = 0 THEN <<>> ELSE <<PyNone>> \o Nones(n - 1)

\* main's finally clause, join_threads: one None is put for each thread
JoinThreadsPut ==
    /\ caller.pc = "finally"
    /\ gen' = IF Len(thread) = 0 THEN gen
              ELSE [gen EXCEPT
                       !.queue.items = @ \o Nones(Len(thread)),
                       !.queue.unfinished_tasks = @ + Len(thread)]
    /\ caller' = [caller EXCEPT !.pc = "thread_join"]
    /\ UNCHANGED <<thread, disk, genLog, mainVars, pairVars, accVars, fVars,
                   rowVars, otherVars>>

\* join_threads: every thread.join() has returned; main returns, or the
\* exception of generate_queries goes on to main's caller
JoinThreadsJoin ==
    /\ caller.pc = "thread_join"
    /\ \A t \in Threads : thread[t].pc = "done"
    /\ gen' = IF Len(thread) = 0 THEN gen ELSE [gen EXCEPT !.queue = PyNone]
    /\ caller' = [caller EXCEPT !.pc = "returned"]
    /\ UNCHANGED <<thread, disk, genLog, mainVars, pairVars, accVars, fVars,
                   rowVars, otherVars>>

\* __worker: self._queue.get() returns an item; None ends the for-loop
WorkerGet(t) ==
    /\ thread[t].pc = "get"
    /\ gen.queue.items # <<>>
    /\ gen' = [gen EXCEPT !.queue.items = Tail(@)]
    /\ thread' = [thread EXCEPT ![t] =
                     IF Head(gen.queue.items) = PyNone
                     THEN [pc |-> "done", task |-> PyNone]
                     ELSE [pc |-> "task", task |-> Head(gen.queue.items)]]
    /\ UNCHANGED <<caller, disk, genLog, mainVars, pairVars, accVars, fVars,
                   rowVars, otherVars>>

\* __worker: task() writes the chunk file, or raises
WorkerTask(t) ==
    /\ thread[t].pc = "task"
    /\ \/ /\ disk' = [disk EXCEPT !.chunks = @ \cup {thread[t].task}]
          /\ thread' = [thread EXCEPT ![t].pc = "task_done"]
          /\ UNCHANGED genLog
       \/ /\ genLog' = genLog \cup {thread[t].task}
          /\ thread' = [thread EXCEPT ![t].pc = "except"]
          /\ UNCHANGED disk
    /\ UNCHANGED <<gen, caller, mainVars, pairVars, accVars, fVars, rowVars, otherVars>>

\* __worker: except BaseException as e: self._error_in_thread = e
WorkerExcept(t) ==
    /\ thread[t].pc = "except"
    /\ gen' = [gen EXCEPT !.error_in_thread = Error(thread[t].task)]
    /\ thread' = [thread EXCEPT ![t].pc = "task_done"]
    /\ UNCHANGED <<caller, disk, genLog, mainVars, pairVars, accVars, fVars,
                   rowVars, otherVars>>

\* __worker: self._queue.task_done()
WorkerTaskDone(t) ==
    /\ thread[t].pc = "task_done"
    /\ gen' = [gen EXCEPT !.queue.unfinished_tasks = @ - 1]
    /\ thread' = [thread EXCEPT ![t] = [pc |-> "get", task |-> PyNone]]
    /\ UNCHANGED <<caller, disk, genLog, mainVars, pairVars, accVars, fVars,
                   rowVars, otherVars>>

NextGen ==
    \/ CreateThreads
    \/ GenerateQueries
    \/ While
    \/ PutChunk
    \/ QueueJoin
    \/ CheckError
    \/ CreateQuery
    \/ WriteAnnotations
    \/ JoinThreadsPut
    \/ JoinThreadsJoin
    \/ \E t \in Threads : WorkerGet(t)
    \/ \E t \in Threads : WorkerTask(t)
    \/ \E t \in Threads : WorkerExcept(t)
    \/ \E t \in Threads : WorkerTaskDone(t)

SpecGen == InitGen /\ [][NextGen]_vars

\* Scheduling: a thread that can take a step is eventually run, a task
\* that was started ends, and the threads' steps are finitely many, so
\* some enabled step is always eventually taken.
SpecGenFair == SpecGen /\ WF_vars(NextGen)

-----------------------------------------------------------------------------
(* filter_non_matching_reference_audios.py: load_matches and the loop of   *)
(* remove_matches.  A dict is a function, with the insertion order of      *)
(* counts kept in keys because most_common breaks ties by it.              *)

MaxRows == 2

\* the track ids of the model
TrackIds == {"t1", "t2", "t3", "t4"}

\* filter.rows and filter.track_list keep the two files as they were read.

\* a row of the matches file: <<reference_id, query_id>>
MatchPairs == TrackIds \X TrackIds

\* the keys of matches, in the order the rows insert them
RECURSIVE KeyOrder(_)
KeyOrder(rows) ==
    IF rows = <<>> THEN <<>>
    ELSE LET front == KeyOrder(SubSeq(rows, 1, Len(rows) - 1))
             row == rows[Len(rows)]
             with_reference == IF row[1] \in Range(front) THEN front
                               ELSE Append(front, row[1])
         IN  IF row[2] \in Range(with_reference) THEN with_reference
             ELSE Append(with_reference, row[2])

\* load_matches: each row is added in both directions, then counted
load_matches(rows) ==
    LET keys == KeyOrder(rows)
        matched ==
            [x \in Range(keys) |->
                {rows[i][2] : i \in {j \in 1..Len(rows) : rows[j][1] = x}}
                \cup {rows[i][1] : i \in {j \in 1..Len(rows) : rows[j][2] = x}}]
    IN  [matches |-> matched,
         counts |-> [x \in Range(keys) |-> Cardinality(matched[x])],
         keys |-> keys]

\* counts.most_common(1)[0][0]: the first key, in insertion order, that
\* has the largest count
most_common(counts, keys) ==
    keys[CHOOSE i \in 1..Len(keys) :
            /\ \A j \in 1..Len(keys) : counts[keys[j]] <= counts[keys[i]]
            /\ \A j \in 1..(i - 1) : counts[keys[j]] < counts[keys[i]]]

\* del d[key]
Del(d, key) == [x \in DOMAIN d \ {key} |-> d[x]]

\* the key order after del counts[key]
DelKey(keys, key) == SelectSeq(keys, LAMBDA x : x # key)

\* the track lists of the model: every id, or every id but the first
TrackLists == {TrackIds, TrackIds \ {"t1"}}

InitFilter ==
    /\ IdleMain /\ IdlePair /\ IdleAcc /\ IdleF /\ IdleRow /\ IdleGen
    /\ IdleConvert
    /\ \E rows \in ListsUpTo(MatchPairs, MaxRows), tracks \in TrackLists :
          LET loaded == load_matches(rows)
          IN  filter = [pc |-> "while", rows |-> rows,
                        track_list |-> tracks, tracks |-> tracks,
                        matches |-> loaded.matches,
                        counts |-> loaded.counts, keys |-> loaded.keys,
                        reference_id |-> "None", iter |-> {},
                        changed |-> FALSE, exception |-> "None"]

\* while counts: select the track with the most matches and start the
\* iteration over matches[reference_id]
WhileCounts ==
    /\ filter.pc = "while"
    /\ filter' =
          IF filter.keys = <<>> THEN [filter EXCEPT !.pc = "returned"]
          ELSE LET reference_id == most_common(filter.counts, filter.keys)
               IN  [filter EXCEPT !.pc = "for",
                                  !.reference_id = reference_id,
                                  !.iter = filter.matches[reference_id],
                                  !.changed = FALSE]
    /\ UNCHANGED <<mainVars, pairVars, accVars, fVars, rowVars, genVars,
                   convert>>

ForBody_keep_empty(f, query_id) ==
    [f EXCEPT !.counts[query_id] = @ - 1,
              !.matches[query_id] = @ \ {f.reference_id},
              !.iter = @ \ {query_id},
              !.changed = (query_id = f.reference_id)]

\* The body of the for loop for one query_id.  The set under iteration is
\* matches[reference_id]: it changes size only when query_id is
\* reference_id itself.
ForBody(f, query_id) ==
    LET left == f.matches[query_id] \ {f.reference_id}
    IN  IF f.reference_id \notin f.matches[query_id]
        THEN [f EXCEPT !.counts[query_id] = @ - 1,
                       !.pc = "raised", !.exception = "KeyError"]
        ELSE IF left = {}
        THEN [f EXCEPT !.counts = Del(f.counts, query_id),
                       !.keys = DelKey(f.keys, query_id),
                       !.matches = Del(f.matches, query_id),
                       !.iter = @ \ {query_id},
                       !.changed = (query_id = f.reference_id)]
        ELSE [f EXCEPT !.counts[query_id] = @ - 1,
                       !.matches[query_id] = left,
                       !.iter = @ \ {query_id},
                       !.changed = (query_id = f.reference_id)]

\* for query_id in matches[reference_id]: the next element, in the set's
\* own order
ForQuery ==
    /\ filter.pc = "for"
    /\ ~filter.changed
    /\ \E query_id \in filter.iter : filter' = ForBody(filter, query_id)
    /\ UNCHANGED <<mainVars, pairVars, accVars, fVars, rowVars, genVars,
                   convert>>

\* The for loop ends: the iterator raises RuntimeError when the set
\* changed size; after the last element the selected track is removed,
\* and del tracks[reference_id] raises KeyError for an id not in tracks.
RemoveSelected ==
    /\ filter.pc = "for"
    /\ filter.changed \/ filter.iter = {}
    /\ filter' =
          IF filter.changed
          THEN [filter EXCEPT !.pc = "raised", !.exception = "RuntimeError"]
          ELSE IF filter.reference_id \notin filter.tracks
          THEN [filter EXCEPT !.pc = "raised", !.exception = "KeyError"]
          ELSE [filter EXCEPT !.pc = "while",
                              !.tracks = @ \ {filter.reference_id},
                              !.matches = Del(@, filter.reference_id),
                              !.counts = Del(@, filter.reference_id),
                              !.keys = DelKey(@, filter.reference_id)]
    /\ UNCHANGED <<mainVars, pairVars, accVars, fVars, rowVars, genVars,
                   convert>>

NextFilter ==
    \/ WhileCounts
    \/ ForQuery
    \/ RemoveSelected

SpecFilter == InitFilter /\ [][NextFilter]_vars

\* remove_matches is sequential code: its next step is always taken
SpecFilterFair == SpecFilter /\ WF_vars(NextFilter)

-----------------------------------------------------------------------------
(* convert_segment_ranges as a function of its mapping: the calls made on  *)
(* one mapping, whose keys may hold any id of the two files.               *)

MaxSegments == 2

\* the keys of the model: an ordinary pair, a query id and a reference id
\* that are spelled like the two interval fields
ConvertKeys ==
    {P1, <<"reference_interval", "r1">>, <<"q1", "query_interval">>}

\* the segments of the model: one with integer ranges, one without
ConvertRows == {A1, M3}

InitConvert ==
    /\ IdleMain /\ IdlePair /\ IdleAcc /\ IdleF /\ IdleRow /\ IdleGen
    /\ IdleFilter
    /\ \E keys \in SUBSET ConvertKeys :
          \E items \in [keys -> ListsUpTo(ConvertRows, MaxSegments) \ {<<>>}],
             first \in IF keys = {} THEN {PyNone} ELSE keys :
              convert = [pc |-> "start", items |-> items, first |-> first,
                         previous |-> items, calls |-> 0]

\* convert_segment_ranges(items), the first call and a call that follows a
\* call that returned; first is the key next(iter(items)) yields, and
\* previous keeps the mapping as the call found it
ConvertCall ==
    /\ convert.pc \in {"start", "returned"}
    /\ convert.calls < 2
    /\ \E o \in IF DOMAIN convert.items = {}
                THEN ConvertOutcomes(convert.items)
                ELSE ConvertOutcomesFrom(convert.items, convert.first) :
          convert' = [convert EXCEPT
                         !.pc = IF o.ok THEN "returned" ELSE "raised",
                         !.items = o.items,
                         !.previous = convert.items,
                         !.calls = @ + 1]
    /\ UNCHANGED <<mainVars, pairVars, accVars, fVars, rowVars, genVars,
                   filter>>

NextConvert == ConvertCall

SpecConvert == InitConvert /\ [][NextConvert]_vars

-----------------------------------------------------------------------------
(* Properties of evaluate (under Spec).                                    *)

\* the pairs that are a key of either mapping
Keys == DOMAIN annotations \cup DOMAIN matches

\* the list a mapping holds for a pair, empty when the pair is no key
ListOf(items, pair) == IF pair \in DOMAIN items THEN items[pair] ELSE <<>>

InEvaluate == pc \in {"for_matches", "for_annotations", "output"}

\* C1: evaluate calls the pairwise scorer exactly once for every pair that
\* is a key of either mapping, with the pair's two lists (an empty list for
\* the side the pair is missing from): while it runs no pair is scored
\* twice and every call and every add to the global accumulator is one of
\* these; when it returns every key was scored and the global accumulator
\* received as many adds as there are keys.
C1_EveryPairScoredOnce ==
    InEvaluate =>
        /\ \A i, j \in 1..Len(calls) : calls[i].pair = calls[j].pair => i = j
        /\ \A i \in 1..Len(calls) :
              /\ calls[i].pair \in Keys
              /\ calls[i].annotation = ListOf(annotations, calls[i].pair)
              /\ calls[i].match = ListOf(matches, calls[i].pair)
        /\ Len(ev.all_results.recalls) = Len(calls)
        /\ pc = "output" =>
              /\ {calls[i].pair : i \in 1..Len(calls)} = Keys
              /\ Len(ev.all_results.recalls) = Cardinality(Keys)

\* evaluate returned after scoring a pair of both mappings, a pair of the
\* annotations only and a pair of the matches only
C1_Witness ==
    /\ pc = "output"
    /\ P1 \in DOMAIN annotations \cap DOMAIN matches
    /\ P2 \in DOMAIN annotations \ DOMAIN matches
    /\ P3 \in DOMAIN matches \ DOMAIN annotations
    /\ Len(calls) = 3

\* the accumulators of an evaluator
Accumulators(e) ==
    {e.pair_results[k] : k \in DOMAIN e.pair_results}
    \cup {e.ref_results[k] : k \in DOMAIN e.ref_results}
    \cup {e.tag_results[k] : k \in DOMAIN e.tag_results}
    \cup {e.all_results}

\* C2: the Track evaluator gives a pair (tp, up, fp, fn) = (1, 0, 0, 0) when
\* both of its lists are non-empty, (0, 0, 0, 1) when only the annotation
\* list is, (0, 0, 1, 0) when only the match list is; up is 0 in every
\* accumulator; and no table has an entry for (the pair, the reference or a
\* tag of) a pair that is a key of neither mapping.
C2_TrackPresence ==
    kind = "Track" =>
        /\ \A pair \in DOMAIN ev.pair_results :
              LET r == ev.pair_results[pair]
                  a == ListOf(annotations, pair)
                  m == ListOf(matches, pair)
              IN  /\ pair \in Keys
                  /\ a # <<>> /\ m # <<>> =>
                        <<r.tp, r.up, r.fp, r.fn>> = <<1, 0, 0, 0>>
                  /\ a # <<>> /\ m = <<>> =>
                        <<r.tp, r.up, r.fp, r.fn>> = <<0, 0, 0, 1>>
                  /\ a = <<>> /\ m # <<>> =>
                        <<r.tp, r.up, r.fp, r.fn>> = <<0, 0, 1, 0>>
        /\ \A x \in Accumulators(ev) : x.up = 0
        /\ DOMAIN ev.ref_results \subseteq {pair[2] : pair \in Keys}
        /\ \A tag \in DOMAIN ev.tag_results :
              \E pair \in DOMAIN annotations :
                 \E i \in 1..Len(annotations[pair]) :
                    tag \in Range(get_tags_from_annotation(annotations[pair][i]))
        /\ pc = "output" => DOMAIN ev.pair_results = Keys

\* the Track evaluation of a match-only pair and an annotation-only pair
\* returned, the third pair being in neither file
C2_Witness ==
    /\ kind = "Track"
    /\ pc = "output"
    /\ P1 \in DOMAIN matches \ DOMAIN annotations
    /\ P2 \in DOMAIN annotations \ DOMAIN matches
    /\ P3 \notin Keys
    /\ ev.all_results.fp = 1
    /\ ev.all_results.fn = 1

-----------------------------------------------------------------------------
(* Properties of the pairwise scorers (under SpecPair).                    *)

Scored == pairOut.kind # "None"

\* the accumulator the scored pair was stored in
PairResult == pairOut.ev.pair_results[ThePair]

\* one annotation segment and one match segment with the same reference
\* interval and the same query interval, both of the same positive length,
\* at tempo 100
IdenticalScenario ==
    /\ Len(pairIn.annotation) = 1
    /\ Len(pairIn.match) = 1
    /\ LET a == pairIn.annotation[1]
           m == pairIn.match[1]
       IN  /\ a.reference_interval = m.reference_interval
           /\ a.query_interval = m.query_interval
           /\ get_interval_length(a.reference_interval) > 0
           /\ get_interval_length(a.reference_interval)
                 = get_interval_length(a.query_interval)
           /\ a.tempo = PyStr(<<"1", "0", "0">>)

\* C3: when a pair has one annotation segment and one match segment with
\* identical reference and query intervals of the same length L and tempo
\* 100, Track reports tp = 1, BoundingBox reports recall = precision = f = 1
\* and Length reports tp = L with fn = fp = up = 0.
C3_IdenticalSegments ==
    Scored /\ IdenticalScenario =>
        LET L == get_interval_length(pairIn.annotation[1].reference_interval)
        IN  /\ pairOut.kind = "Track" => PairResult.tp = 1
            /\ pairOut.kind = "BoundingBox" =>
                  RP_get(PairResult) = <<Int2Rat(1), Int2Rat(1), Int2Rat(1)>>
            /\ pairOut.kind = "Length" =>
                  /\ PairResult.tp = L
                  /\ PairResult.fn = 0
                  /\ PairResult.fp = 0
                  /\ PairResult.up = 0

\* Length scored identical segments of length MaxT
C3_Witness ==
    /\ pairOut.kind = "Length"
    /\ IdenticalScenario
    /\ get_interval_length(pairIn.annotation[1].reference_interval) = MaxT
    /\ PairResult.tp = MaxT

\* C4: a pair with annotation segments and no match gets recall 0 and
\* precision 1 from BoundingBox and from Length, and from Track a false
\* negative (no true or false positive).
C4_AnnotatedButUnmatched ==
    Scored /\ pairIn.annotation # <<>> /\ pairIn.match = <<>> =>
        /\ pairOut.kind \in {"BoundingBox", "Length"} =>
              /\ RP_get(PairResult)[1] = Int2Rat(0)
              /\ RP_get(PairResult)[2] = Int2Rat(1)
              /\ PairResult.recalls = <<Int2Rat(0)>>
              /\ PairResult.precisions = <<Int2Rat(1)>>
        /\ pairOut.kind = "Track" =>
              /\ PairResult.fn = 1
              /\ PairResult.tp = 0
              /\ PairResult.fp = 0

\* BoundingBox scored an annotation segment of positive length on both axes
\* against no match
C4_Witness ==
    /\ pairOut.kind = "BoundingBox"
    /\ Len(pairIn.annotation) = 1
    /\ pairIn.match = <<>>
    /\ get_interval_length(pairIn.annotation[1].reference_interval) > 0
    /\ get_interval_length(pairIn.annotation[1].query_interval) > 0
    /\ PairResult.precisions = <<Int2Rat(1)>>

InUnitRange(x) == Len(x) = 2 /\ x[2] > 0 /\ 0 <= x[1] /\ x[1] <= x[2]

\* C5: the recall and the precision BoundingBox gives a pair lie in [0, 1],
\* because the overlaps of a segment are united before they are measured.
C5_BoundingBoxInUnitRange ==
    Scored /\ pairOut.kind = "BoundingBox" =>
        /\ Len(PairResult.recalls) = 1
        /\ Len(PairResult.precisions) = 1
        /\ InUnitRange(PairResult.recalls[1])
        /\ InUnitRange(PairResult.precisions[1])

\* BoundingBox scored an annotation segment two matches overlap in a common
\* part, on both axes
C5_Witness ==
    /\ pairOut.kind = "BoundingBox"
    /\ Len(pairIn.annotation) = 1
    /\ Len(pairIn.match) = 2
    /\ LET a == pairIn.annotation[1]
           m1 == pairIn.match[1]
           m2 == pairIn.match[2]
       IN  /\ a.reference_interval \cap m1.reference_interval
                 \cap m2.reference_interval # {}
           /\ a.query_interval \cap m1.query_interval
                 \cap m2.query_interval # {}
    /\ PairResult.recalls = <<Int2Rat(1)>>

\* no annotation segment overlaps a match segment on both axes
NoDoubleOverlap ==
    \A a \in 1..Len(pairIn.annotation) : \A m \in 1..Len(pairIn.match) :
        \/ pairIn.annotation[a].reference_interval
              \cap pairIn.match[m].reference_interval = {}
        \/ pairIn.annotation[a].query_interval
              \cap pairIn.match[m].query_interval = {}

\* C6: BoundingBox counts an overlap only when it is non-empty on both
\* axes: a pair none of whose segments overlap on both axes has no covered
\* length on either axis, for the annotation and for the match, and recall 0.
C6_OverlapNeedsBothAxes ==
    Scored /\ pairOut.kind = "BoundingBox" /\ NoDoubleOverlap =>
        /\ \A axis \in {1, 2} :
              /\ CoveredLength(pairIn.annotation, pairIn.match, axis) = 0
              /\ CoveredLength(pairIn.match, pairIn.annotation, axis) = 0
        /\ PairResult.recalls = <<Int2Rat(0)>>

\* BoundingBox scored an annotation segment that one match overlaps on the
\* reference axis only and another on the query axis only
C6_Witness ==
    /\ pairOut.kind = "BoundingBox"
    /\ NoDoubleOverlap
    /\ Len(pairIn.annotation) = 1
    /\ Len(pairIn.match) = 2
    /\ LET a == pairIn.annotation[1]
       IN  /\ \E m \in 1..2 :
                 a.reference_interval \cap pairIn.match[m].reference_interval # {}
           /\ \E m \in 1..2 :
                 a.query_interval \cap pairIn.match[m].query_interval # {}
    /\ PairResult.recalls = <<Int2Rat(0)>>

\* C7 as stated: for every annotation segment the Length evaluator's tp + fn
\* is at most the segment's reference-axis length plus 1.
C7_BoundedByReferenceLength ==
    Scored /\ pairOut.kind = "Length" =>
        \A a \in 1..Len(pairIn.annotation) :
            LET part == LengthAnnotationPart(pairIn.annotation[a], pairIn.match)
            IN  part.tp + part.fn
                   <= get_interval_length(pairIn.annotation[a].reference_interval) + 1

\* C7, amended: for every annotation segment the Length evaluator's tp + fn
\* is at most 1 more than the larger of the segment's reference-axis length
\* and its query-axis length scaled by the tempo.
C7_BoundedByLargerAxis ==
    Scored /\ pairOut.kind = "Length" =>
        \A a \in 1..Len(pairIn.annotation) :
            LET row == pairIn.annotation[a]
                part == LengthAnnotationPart(row, pairIn.match)
                reference_length == get_interval_length(row.reference_interval)
                query_length == Scaled(get_interval_length(row.query_interval),
                                       TempoOf(row))
            IN  /\ part.tp >= 0
                /\ part.fn >= 0
                /\ \/ part.tp + part.fn <= reference_length + 1
                   \/ RatLE(Int2Rat(part.tp + part.fn),
                            RatAdd(query_length, Int2Rat(1)))

\* Length scored an unmatched annotation segment whose scaled query length
\* exceeds its reference length by more than 1: all of it is missing
C7_Witness ==
    /\ pairOut.kind = "Length"
    /\ Len(pairIn.annotation) = 1
    /\ pairIn.match = <<>>
    /\ LET row == pairIn.annotation[1]
       IN  /\ get_interval_length(row.reference_interval) = 1
           /\ get_interval_length(row.query_interval) = MaxT
           /\ row.tempo = PyStr(<<"2", "0", "0">>)
    /\ PairResult.fn = 2 * MaxT
    /\ PairResult.tp = 0

-----------------------------------------------------------------------------
(* Properties of the accumulators (under SpecAcc) and of the F-score       *)
(* (under SpecF).                                                          *)

\* f is the F-score of recall R and precision P: 10 R P / (9 R + P), or 0
\* when R + P is not positive
IsFScore(f, R, P) ==
    /\ ~Raised(f)
    /\ IF RatLT(Int2Rat(0), RatAdd(R, P))
       THEN RatMul(f, RatAdd(RatMul(Int2Rat(9), R), P))
               = RatMul(Int2Rat(10), RatMul(R, P))
       ELSE f = Int2Rat(0)

\* C8: a recall/precision accumulator without an add reports recall 0,
\* precision 1 and f_score 0; after n >= 1 adds it reports the arithmetic
\* mean of the added recalls, the arithmetic mean of the added precisions
\* and the F-score of the two means.
C8_AccumulatorMeans ==
    acc.class = "RecallPrecisionResults" /\ accOut # <<>> =>
        LET n == Len(accLog)
        IN  /\ Len(accOut) = 3
            /\ n = 0 => accOut = <<Int2Rat(0), Int2Rat(1), Int2Rat(0)>>
            /\ n >= 1 =>
                  /\ RatMul(accOut[1], Int2Rat(n))
                        = RatSum([i \in 1..n |-> accLog[i].recall])
                  /\ RatMul(accOut[2], Int2Rat(n))
                        = RatSum([i \in 1..n |-> accLog[i].precision])
                  /\ IsFScore(accOut[3], accOut[1], accOut[2])

\* get() after the adds (1/2, 1) and (1, 0): the means are 3/4 and 1/2
C8_Witness ==
    /\ acc.class = "RecallPrecisionResults"
    /\ Len(accLog) = 2
    /\ accLog[1].recall = Rat(1, 2) /\ accLog[1].precision = Rat(1, 1)
    /\ accLog[2].recall = Rat(1, 1) /\ accLog[2].precision = Rat(0, 1)
    /\ accOut # <<>>
    /\ accOut[1] = Rat(3, 4)
    /\ accOut[2] = Rat(1, 2)

\* C9: calculate_f_score(R, P) is 10 R P / (9 R + P) when R + P > 0 and 0
\* otherwise: 1 at R = P = 1, 0 at R = 0 for every P > 0; for R and P in
\* [0, 1] it never divides by zero.
C9_FScoreFormula ==
    fOut # <<>> =>
        LET R == fIn[1]
            P == fIn[2]
            f == fOut[1]
        IN  /\ IsFScore(f, R, P)
            /\ R = Int2Rat(1) /\ P = Int2Rat(1) => f = Int2Rat(1)
            /\ R = Int2Rat(0) /\ RatLT(Int2Rat(0), P) => f = Int2Rat(0)

\* the F-score of recall 1/2 and precision 1/3 is 10/29
C9_Witness ==
    /\ fIn = <<Rat(1, 2), Rat(1, 3)>>
    /\ fOut = <<Rat(10, 29)>>

\* C10: the counts accumulator forwards to the base accumulator the recall
\* tp / (tp + fn), or 0 when tp + fn = 0, and the precision tp / (tp + fp),
\* or 1 when tp + fp = 0, of every add; the tp, up, fp and fn it reports
\* are the sums of the arguments of all its adds.
C10_CountsAccumulator ==
    acc.class = "PositivesNegativesResults" =>
        LET n == Len(accLog)
        IN  /\ Len(acc.obj.recalls) = n
            /\ Len(acc.obj.precisions) = n
            /\ \A i \in 1..n :
                  LET c == accLog[i]
                      recall == acc.obj.recalls[i]
                      precision == acc.obj.precisions[i]
                  IN  /\ ~Raised(recall)
                      /\ ~Raised(precision)
                      /\ IF c.tp + c.fn = 0 THEN recall = Int2Rat(0)
                         ELSE recall[1] * (c.tp + c.fn) = recall[2] * c.tp
                      /\ IF c.tp + c.fp = 0 THEN precision = Int2Rat(1)
                         ELSE precision[1] * (c.tp + c.fp) = precision[2] * c.tp
            /\ accOut # <<>> =>
                  /\ Len(accOut) = 7
                  /\ accOut[4] = IntSum([i \in 1..n |-> accLog[i].tp])
                  /\ accOut[5] = IntSum([i \in 1..n |-> accLog[i].up])
                  /\ accOut[6] = IntSum([i \in 1..n |-> accLog[i].fp])
                  /\ accOut[7] = IntSum([i \in 1..n |-> accLog[i].fn])

\* get() after add(1, 1, 0, 1) and add(0, 0, 0, 1): recalls 1/2 and 0,
\* precisions 1 and (by default) 1, counts 1, 1, 0, 2
C10_Witness ==
    /\ acc.class = "PositivesNegativesResults"
    /\ Len(accLog) = 2
    /\ <<accLog[1].tp, accLog[1].up, accLog[1].fp, accLog[1].fn>> = <<1, 1, 0, 1>>
    /\ <<accLog[2].tp, accLog[2].up, accLog[2].fp, accLog[2].fn>> = <<0, 0, 0, 1>>
    /\ acc.obj.recalls = <<Rat(1, 2), Int2Rat(0)>>
    /\ acc.obj.precisions = <<Int2Rat(1), Int2Rat(1)>>
    /\ accOut # <<>>
    /\ <<accOut[4], accOut[5], accOut[6], accOut[7]>> = <<1, 1, 0, 2>>

-----------------------------------------------------------------------------
(* Zero denominators (under SpecPair).                                     *)

\* C11: no operation of the evaluators or of the accumulators raises on a
\* zero denominator: every recall and precision an evaluator stores, and
\* every value get() reports (of an empty accumulator too), is a number; a
\* match segment of zero query length is scored at tempo 1; an annotation
\* of total length 0 on an axis gives BoundingBox recall 0, a match of
\* total length 0 on both axes gives BoundingBox precision 1; and an add
\* with tp + fn = 0 stores recall 0, one with tp + fp = 0 precision 1.
C11_NoZeroDivision ==
    Scored =>
        /\ \A x \in Accumulators(pairOut.ev) :
              /\ \A i \in 1..Len(x.recalls) : ~Raised(x.recalls[i])
              /\ \A i \in 1..Len(x.precisions) : ~Raised(x.precisions[i])
        /\ \A x \in Accumulators(pairOut.ev) \cup {NewRecallPrecisionResults} :
              LET got == RP_get(x)
              IN  \A j \in 1..3 : ~Raised(got[j])
        /\ pairOut.kind = "Length" =>
              \A m \in 1..Len(pairIn.match) :
                  LET part == LengthMatchPart(pairIn.match[m], pairIn.annotation)
                  IN  /\ ~Raised(part.tempo)
                      /\ pairIn.match[m].query_interval = {} =>
                            part.tempo = Int2Rat(1)
        /\ pairOut.kind = "BoundingBox" =>
              /\ \/ TotalLength(pairIn.annotation, 1) = 0
                 \/ TotalLength(pairIn.annotation, 2) = 0
                 => PairResult.recalls = <<Int2Rat(0)>>
              /\ /\ TotalLength(pairIn.match, 1) = 0
                 /\ TotalLength(pairIn.match, 2) = 0
                 => PairResult.precisions = <<Int2Rat(1)>>
        /\ pairOut.kind \in {"Track", "Length"} =>
              /\ PairResult.tp + PairResult.fn = 0 =>
                    PairResult.recalls = <<Int2Rat(0)>>
              /\ PairResult.tp + PairResult.fp = 0 =>
                    PairResult.precisions = <<Int2Rat(1)>>

\* Length scored, against no annotation, a match segment of zero query
\* length over the whole reference axis: tp + fn = 0, fp = MaxT
C11_Witness ==
    /\ pairOut.kind = "Length"
    /\ pairIn.annotation = <<>>
    /\ Len(pairIn.match) = 1
    /\ pairIn.match[1].query_interval = {}
    /\ pairIn.match[1].reference_interval = Whole
    /\ PairResult.tp + PairResult.fn = 0
    /\ PairResult.fp = MaxT
    /\ PairResult.recalls = <<Int2Rat(0)>>
    /\ PairResult.precisions = <<Int2Rat(0)>>

-----------------------------------------------------------------------------
(* Properties of one segment's row (under SpecRow).                        *)

TheRow == rowIn[1]

\* the row has no field k, or an empty one
NoValue(row, k) == k \notin DOMAIN row \/ row[k] = PyStr(<<>>)

\* the field k of the row is absent or holds the integer n
AbsentOrInt(row, k, n) == k \notin DOMAIN row \/ row[k] = PyStr(IntString(n))

\* C12: a segment with tempo 100 and pitch 0 (either may be absent), without
\* noise and without merge fields, gets the tags pitch:exact, tempo:exact,
\* speed:exact, noise:none, merge_prev:begin and merge_next:end.
C12_UnmodifiedSegmentTags ==
    /\ rowOut.tags # <<>>
    /\ AbsentOrInt(TheRow, "tempo", 100)
    /\ AbsentOrInt(TheRow, "pitch", 0)
    /\ \A k \in {"noise_type", "noise_color", "noise_snr", "merge_prev",
                 "merge_next"} : NoValue(TheRow, k)
    => {<<"pitch:", "exact">>, <<"tempo:", "exact">>, <<"speed:", "exact">>,
        <<"noise:", "none">>, <<"merge_prev:", "begin">>,
        <<"merge_next:", "end">>} \subseteq Range(rowOut.tags[1])

\* the tags of a row that holds tempo 100 and pitch 0 and nothing else
C12_Witness ==
    /\ "tempo" \in DOMAIN TheRow /\ TheRow.tempo = PyStr(<<"1", "0", "0">>)
    /\ "pitch" \in DOMAIN TheRow /\ TheRow.pitch = PyStr(<<"0">>)
    /\ DOMAIN TheRow = {"tempo", "pitch", "reference_interval", "query_interval"}
    /\ rowOut.tags = <<(<<(<<"pitch:", "exact">>), <<"tempo:", "exact">>,
                          <<"speed:", "exact">>, <<"noise:", "none">>,
                          <<"merge_prev:", "begin">>,
                          <<"merge_next:", "end">>>>)>>

\* v is a string that writes an integer: an optional sign, then digits only
IsIntegerText(v) ==
    /\ "str" \in DOMAIN v
    /\ \E sign \in {<<>>, <<"+">>, <<"-">>} :
          /\ Len(v.str) > Len(sign)
          /\ SubSeq(v.str, 1, Len(sign)) = sign
          /\ \A i \in (Len(sign) + 1)..Len(v.str) : v.str[i] \in Digits

\* the integer fields of the row that are missing or hold no integer
Unreadable(row) ==
    {k \in DOMAIN IntFields : k \notin DOMAIN row \/ ~IsIntegerText(row[k])}

\* the same segment with those fields absent
WithoutUnreadable(row) ==
    [k \in DOMAIN row \ Unreadable(row) |-> row[k]]

\* C13: an integer field that is missing or holds a string that is no
\* integer is read as the field's default (tempo 100, pitch 0, flags 0),
\* and the tags and the Length counts of the segment are those of the same
\* segment with the field absent.
C13_MalformedFieldsReadAsDefault ==
    /\ rowOut.ints # <<>> =>
          \A k \in Unreadable(TheRow) : rowOut.ints[1][k] = IntFields[k]
    /\ rowOut.tags # <<>> =>
          rowOut.tags[1] = get_tags_from_annotation(WithoutUnreadable(TheRow))
    /\ rowOut.length # <<>> =>
          rowOut.length[1] = LengthScore(<<WithoutUnreadable(TheRow)>>, rowIn[2])

\* a row whose tempo is a word, whose pitch cell is missing and whose flags
\* are a letter and a number in exponent notation: all read as the defaults,
\* tagged as unmodified and scored at tempo 100
C13_Witness ==
    /\ Unreadable(TheRow) = {"tempo", "pitch", "echo_delay", "high_pass",
                             "low_pass", "reverb"}
    /\ DOMAIN TheRow \cap DOMAIN IntFields
          = {"tempo", "pitch", "echo_delay", "high_pass"}
    /\ TheRow.tempo = PyStr(<<"fast">>)
    /\ TheRow.pitch = PyNone
    /\ rowIn[2] # <<>>
    /\ rowOut.ints = <<IntFields>>
    /\ rowOut.tags # <<>>
    /\ <<"tempo:", "exact">> \in Range(rowOut.tags[1])
    /\ rowOut.length = <<[tp |-> 1, up |-> MaxT - 1, fp |-> 0, fn |-> MaxT - 1]>>

\* the band of a value: its small band includes its bounds
Band(v, min_small, max_small, min_medium, max_medium) ==
    IF min_small <= v /\ v <= max_small THEN "small"
    ELSE IF min_medium <= v /\ v <= max_medium THEN "medium"
    ELSE "large"

\* the band of a value when only the values strictly between the bounds of
\* the small band are small
BandStrict(v, min_small, max_small, min_medium, max_medium) ==
    IF min_small < v /\ v < max_small THEN "small"
    ELSE IF min_medium <= v /\ v <= max_medium THEN "medium"
    ELSE "large"

TempoBand(t) ==
    Band(t, MIN_TEMPO_SMALL, MAX_TEMPO_SMALL, MIN_TEMPO_MEDIUM, MAX_TEMPO_MEDIUM)

PitchBand(p) ==
    Band(p, MIN_PITCH_SMALL, MAX_PITCH_SMALL, MIN_PITCH_MEDIUM, MAX_PITCH_MEDIUM)

TempoBandStrict(t) ==
    BandStrict(t, MIN_TEMPO_SMALL, MAX_TEMPO_SMALL, MIN_TEMPO_MEDIUM,
               MAX_TEMPO_MEDIUM)

PitchBandStrict(p) ==
    BandStrict(p, MIN_PITCH_SMALL, MAX_PITCH_SMALL, MIN_PITCH_MEDIUM,
               MAX_PITCH_MEDIUM)

\* the tags of the list that start with the prefix
TagsOf(tags, prefix) == {tags[i] : i \in {j \in 1..Len(tags) : tags[j][1] = prefix}}

\* the row holds tempo t and pitch p, and its tags were computed
TaggedWith(t, p) ==
    /\ rowOut.tags # <<>>
    /\ "tempo" \in DOMAIN TheRow /\ TheRow.tempo = PyStr(IntString(t))
    /\ "pitch" \in DOMAIN TheRow /\ TheRow.pitch = PyStr(IntString(p))

\* C14 as stated: only a value strictly between the small-band bounds is
\* small; a value between the medium-band bounds and outside the small band
\* is medium; every other value is large.
C14_StrictSmallBand ==
    \A t \in TempoValues, p \in PitchValues :
        TaggedWith(t, p) =>
            /\ t # 100 /\ p = 0 =>
                  TagsOf(rowOut.tags[1], "tempo:") = {<<"tempo:", TempoBandStrict(t)>>}
            /\ t = 100 /\ p # 0 =>
                  TagsOf(rowOut.tags[1], "pitch:") = {<<"pitch:", PitchBandStrict(p)>>}
            /\ t # 100 /\ p # 0 =>
                  TagsOf(rowOut.tags[1], "speed:") = {<<"speed:", TempoBandStrict(t)>>}

\* C14, amended: with the integer band bounds (lower bounds rounded up,
\* upper bounds rounded down), a value between the small-band bounds, the
\* bounds included, is small; a value between the medium-band bounds, the
\* bounds included, and outside the small band is medium; every other value
\* is large; this holds for the tempo when the pitch is 0, for the pitch
\* when the tempo is 100 and for the speed (by the tempo) when both differ
\* from their defaults, and exactly one of small, medium, large is emitted.
C14_InclusiveBands ==
    \A t \in TempoValues, p \in PitchValues :
        TaggedWith(t, p) =>
            /\ t # 100 /\ p = 0 =>
                  /\ TagsOf(rowOut.tags[1], "tempo:") = {<<"tempo:", TempoBand(t)>>}
                  /\ TagsOf(rowOut.tags[1], "pitch:") = {}
                  /\ TagsOf(rowOut.tags[1], "speed:") = {}
            /\ t = 100 /\ p # 0 =>
                  /\ TagsOf(rowOut.tags[1], "pitch:") = {<<"pitch:", PitchBand(p)>>}
                  /\ TagsOf(rowOut.tags[1], "tempo:") = {}
                  /\ TagsOf(rowOut.tags[1], "speed:") = {}
            /\ t # 100 /\ p # 0 =>
                  /\ TagsOf(rowOut.tags[1], "speed:") = {<<"speed:", TempoBand(t)>>}
                  /\ TagsOf(rowOut.tags[1], "tempo:") = {}
                  /\ TagsOf(rowOut.tags[1], "pitch:") = {}
            /\ Cardinality({i \in 1..Len(rowOut.tags[1]) :
                               rowOut.tags[1][i][1] \in {"tempo:", "pitch:", "speed:"}
                               /\ rowOut.tags[1][i][2] \in {"small", "medium", "large"}})
                  = IF t = 100 /\ p = 0 THEN 0 ELSE 1

\* the tempo at the lower bound of the small band, at the pitch 0: small
C14_Witness ==
    /\ TaggedWith(MIN_TEMPO_SMALL, 0)
    /\ <<"tempo:", "small">> \in Range(rowOut.tags[1])

-----------------------------------------------------------------------------
(* Properties of the result tables (under Spec).                           *)

\* the number of adds an accumulator received
Adds(x) == Len(x.recalls)

\* the number of adds the accumulator of a key received, 0 without one
AddsOf(table, key) == IF key \in DOMAIN table THEN Adds(table[key]) ELSE 0

\* this step is the _evaluate_pair call of a pair without annotation
MatchOnlyCall ==
    /\ Len(calls') = Len(calls) + 1
    /\ calls'[Len(calls')].annotation = <<>>

\* C15: the per-tag accumulators come from the tags of annotation segments
\* only: every key of the per-tag table is a tag of an annotation segment
\* of a scored pair, whatever parameters the match segments carry; and the
\* scoring of a pair that has match segments only leaves the per-tag table
\* as it was, while the pair's accumulator, its reference's accumulator and
\* the global accumulator each receive one add.
C15_TagsFromAnnotationsOnly ==
    /\ [](InEvaluate =>
            \A tag \in DOMAIN ev.tag_results :
                \E i \in 1..Len(calls) :
                    \E a \in 1..Len(calls[i].annotation) :
                        tag \in Range(get_tags_from_annotation(
                                          calls[i].annotation[a])))
    /\ [][MatchOnlyCall =>
            LET pair == calls'[Len(calls')].pair
            IN  /\ ev'.tag_results = ev.tag_results
                /\ AddsOf(ev'.pair_results, pair)
                      = AddsOf(ev.pair_results, pair) + 1
                /\ ev'.pair_results[pair].tags = {}
                /\ AddsOf(ev'.ref_results, pair[2])
                      = AddsOf(ev.ref_results, pair[2]) + 1
                /\ Adds(ev'.all_results) = Adds(ev.all_results) + 1]_vars

\* the Length evaluator scored an annotated pair and then a pair that has
\* only a match segment with noise parameters: the per-tag table has the
\* annotation's tags and no tag of the match's noise
C15_Witness ==
    /\ kind = "Length"
    /\ Len(calls) = 2
    /\ calls[1].annotation # <<>>
    /\ calls[2].annotation = <<>>
    /\ calls[2].match = <<ConvertElem(M2)>>
    /\ DOMAIN ev.tag_results # {}
    /\ <<"noise:", "pink">> \notin DOMAIN ev.tag_results
    /\ <<"noise:", "7", "dB">> \notin DOMAIN ev.tag_results
    /\ Adds(ev.all_results) = 2

\* the evaluator after it scored the pairs in the order given
RECURSIVE EvaluateInOrder(_, _, _)
EvaluateInOrder(k, e, pairs) ==
    IF pairs = <<>> THEN e
    ELSE EvaluateInOrder(k,
                         EvaluatePair(k, e, Head(pairs),
                                      ListOf(annotations, Head(pairs)),
                                      ListOf(matches, Head(pairs))),
                         Tail(pairs))

\* the orders in which the keys of the two mappings can be visited
KeyOrders ==
    {s \in [1..Cardinality(Keys) -> Keys] :
        \A i, j \in 1..Cardinality(Keys) : s[i] = s[j] => i = j}

\* what an accumulator reports: the means and F-score (and the counts), and
\* its tags
Report(k, x) ==
    [get |-> IF k = "BoundingBox" THEN RP_get(x) ELSE PN_get(x),
     tags |-> x.tags]

\* what the four tables of an evaluator report
Reports(k, e) ==
    [pair_results |->
        [key \in DOMAIN e.pair_results |-> Report(k, e.pair_results[key])],
     ref_results |->
        [key \in DOMAIN e.ref_results |-> Report(k, e.ref_results[key])],
     tag_results |->
        [key \in DOMAIN e.tag_results |-> Report(k, e.tag_results[key])],
     all_results |-> Report(k, e.all_results)]

\* C16: what the four tables report when evaluate returns (the counts, and
\* the recall and precision means as exact rationals) does not depend on
\* the order of the pairs: scoring the keys of the two mappings in any
\* order gives the same tables.
C16_OrderIndependent ==
    pc = "output" =>
        \A order \in KeyOrders :
            Reports(kind, ev)
               = Reports(kind, EvaluateInOrder(kind, NewEvaluator(kind), order))

\* BoundingBox returned after scoring the second query of a reference
\* before the first, with different recalls
C16_Witness ==
    /\ pc = "output"
    /\ kind = "BoundingBox"
    /\ Len(calls) >= 2
    /\ calls[1].pair = P2
    /\ calls[2].pair = P1
    /\ ev.ref_results["r1"].recalls[1] # ev.ref_results["r1"].recalls[2]
    /\ Cardinality(KeyOrders) >= 2

-----------------------------------------------------------------------------
(* Properties of the output (under Spec).                                  *)

\* the rows of the groups given, in the order they were written
RowsOf(block, groups) ==
    SelectSeq(block, LAMBDA row : row.group \in groups)

\* the groups of the rows, in the order they were written
GroupsOf(block) == [i \in 1..Len(block) |-> block[i].group]

\* block is what output_results is to write for the evaluator e of class k
GoodBlock(block, k, e, csv) ==
    LET head == IF csv THEN 2 ELSE 1
        pairs == RowsOf(block, {"pair"})
        refs == RowsOf(block, {"ref"})
        tags == RowsOf(block, {"tag"})
        get(x) == IF k = "BoundingBox" THEN RP_get(x) ELSE PN_get(x)
    IN  /\ GroupsOf(block)
             = (IF csv THEN <<"title", "header">> ELSE <<"title">>)
               \o [i \in 1..Len(pairs) |-> "pair"]
               \o [i \in 1..Len(refs) |-> "ref"]
               \o [i \in 1..Len(tags) |-> "tag"]
               \o <<"total", "blank">>
        /\ block[1].key = Title(k)
        /\ {pairs[i].key : i \in 1..Len(pairs)} = DOMAIN e.pair_results
        /\ {refs[i].key[1] : i \in 1..Len(refs)} = DOMAIN e.ref_results
        /\ {tags[i].key : i \in 1..Len(tags)} = DOMAIN e.tag_results
        /\ \A i \in 1..(Len(pairs) - 1) : PairLess(pairs[i].key, pairs[i + 1].key)
        /\ \A i \in 1..(Len(refs) - 1) : IdLess(refs[i].key[1], refs[i + 1].key[1])
        /\ \A i \in 1..(Len(tags) - 1) : TagLess(tags[i].key, tags[i + 1].key)
        /\ \A i \in 1..Len(pairs) :
              pairs[i].values = get(e.pair_results[pairs[i].key])
        /\ \A i \in 1..Len(refs) :
              refs[i].values = get(e.ref_results[refs[i].key[1]])
        /\ \A i \in 1..Len(tags) :
              tags[i].values = get(e.tag_results[tags[i].key])
        /\ block[Len(block) - 1].values = get(e.all_results)

\* C17: output_results writes the title (and, to a CSV file, the header),
\* then the rows of all pairs in ascending (query_id, reference_id) order,
\* then the rows of all references in ascending order of the reference id,
\* then the rows of all tags in ascending order, then one total row, then a
\* blank line; and what it writes is the same whatever the order in which
\* the pairs were scored.
C17_SortedOutput ==
    [][Len(out') > Len(out) =>
          LET block == SubSeq(out', Len(out) + 1, Len(out'))
          IN  /\ GoodBlock(block, kind, ev, fw)
              /\ \A order \in KeyOrders :
                    block = OutputRows(kind,
                                       EvaluateInOrder(kind, NewEvaluator(kind),
                                                       order),
                                       fw)]_vars

\* the Track results of three pairs, one of them annotated with an
\* unmodified segment, were printed: the pairs (q1, r1), (q1, r2), (q2, r1),
\* the references r1, r2, the six tags in the order of their text, the
\* total and the blank line
C17_Witness ==
    /\ ~fw
    /\ Len(out) = 14
    /\ GroupsOf(out) = <<"title", "pair", "pair", "pair", "ref", "ref", "tag",
                         "tag", "tag", "tag", "tag", "tag", "total", "blank">>
    /\ [i \in 1..11 |-> out[i + 1].key]
          = <<P1, P3, P2, <<"r1">>, <<"r2">>,
              <<"merge_next:", "end">>, <<"merge_prev:", "begin">>,
              <<"noise:", "none">>, <<"pitch:", "exact">>,
              <<"speed:", "exact">>, <<"tempo:", "exact">>>>

-----------------------------------------------------------------------------
(* C18: a failed conversion of the segment ranges.                         *)

SegmentKinds == {"BoundingBox", "Length"}

\* the rows of both files
AllRows ==
    UNION {Range(annotations[k]) : k \in DOMAIN annotations}
    \cup UNION {Range(matches[k]) : k \in DOMAIN matches}

\* a row whose interval fields are missing or are no numbers
BadRow(row) == ~Convertible(row)

\* a row that convert_segment_ranges has been through
Converted(row) == {"reference_interval", "query_interval"} \subseteq DOMAIN row

\* the title lines of the segment-level evaluators among the lines written
SegmentTitles ==
    {i \in 1..Len(out) : /\ out[i].group = "title"
                         /\ out[i].key \in {Title(k) : k \in SegmentKinds}}

\* C18: whenever a row of the annotations or of the matches has interval
\* fields that are missing or unconvertible, neither segment-level
\* evaluator runs: a segment-level evaluator only ever exists over rows
\* that are all converted, and with a bad row none is created and none of
\* its results is written; the run has then reported the failure exactly
\* once when it returns at a level that asks for segments, and never
\* reports it otherwise; the step that reports it ends the run and leaves
\* the lines written, which are the Track-level results at level "all",
\* as they were.
C18_ConversionFailure ==
    /\ [](/\ stderr \in {0, 1}
          /\ kind \in SegmentKinds =>
                /\ \A row \in AllRows : ~BadRow(row) /\ Converted(row)
                /\ stderr = 0
          /\ (\E row \in AllRows : BadRow(row)) =>
                /\ kind \notin SegmentKinds
                /\ SegmentTitles = {}
                /\ pc = "returned" /\ level # "files" => stderr = 1
          /\ (\A row \in AllRows : ~BadRow(row)) => stderr = 0
          /\ stderr = 1 =>
                /\ pc = "returned"
                /\ out = IF level = "all"
                         THEN OutputRows("Track", ev, fw) ELSE <<>>)
    /\ [][stderr' # stderr =>
            /\ stderr' = stderr + 1
            /\ pc' = "returned"
            /\ out' = out
            /\ kind' = kind /\ ev' = ev /\ calls' = calls]_vars

\* at level "all" the matches were converted, the annotations have a row
\* without range columns, and the run has returned after the Track results
C18_Witness ==
    /\ stderr = 1
    /\ level = "all"
    /\ kind = "Track"
    /\ Len(out) > 2
    /\ P3 \in DOMAIN annotations
    /\ annotations[P3] = <<A4>>
    /\ \A k \in DOMAIN matches : \A row \in Range(matches[k]) : Converted(row)

-----------------------------------------------------------------------------
(* C19: a failure in a worker thread of the query generator (under         *)
(* SpecGen).                                                               *)

\* the tasks of query q that raised
RaisedIn(q) == {task \in genLog : task.query = q}

\* the queries whose annotations were added
Annotated == Range(gen.annotations)

\* the main thread has passed the check that follows the queue's join and
\* has not begun the chunks of another query
PastCheck == caller.pc \in {"merge", "while", "write_annotations"}

\* the main thread has left generate_queries
LeftGenerateQueries ==
    caller.pc \in {"write_annotations", "finally", "thread_join", "returned"}

\* C19: a chunk-creation task that raised in a worker thread is surfaced
\* before the annotations are trusted, in every interleaving: a query with
\* a raised task is never merged and never gets its annotations; when the
\* queue has drained after a task raised, the recorded error is that of a
\* raised task of the current query, and the next step of generate_queries
\* raises it and changes neither the queries merged nor the annotations;
\* the main thread is never past that check, and never at
\* write_annotations, with a raised task behind it; the annotation file
\* is never written then, and main ends with the exception of a raised
\* task.
C19_WorkerFailureSurfaced ==
    /\ [](/\ \A task \in genLog :
                /\ task.query \notin disk.queries
                /\ task.query \notin Annotated
          /\ genLog # {} =>
                /\ ~PastCheck
                /\ disk.annotation_file = <<>>
                /\ genLog = RaisedIn(caller.query_index)
          /\ genLog # {} /\ caller.pc = "check" =>
                /\ gen.error_in_thread \in {Error(task) : task \in genLog}
                /\ gen.queue.unfinished_tasks = 0
          /\ genLog # {} /\ LeftGenerateQueries =>
                caller.exception \in {Error(task) : task \in genLog}
          /\ genLog = {} => caller.exception = PyNone)
    /\ [][caller.pc = "check" /\ genLog # {} /\ caller' # caller =>
            /\ caller'.pc = "finally"
            /\ caller'.exception = gen.error_in_thread
            /\ disk' = disk
            /\ gen'.annotations = gen.annotations]_vars

\* with two worker threads the first query was merged, two tasks of the
\* second query raised, and main has returned with an exception and
\* without an annotation file
C19_Witness ==
    /\ caller.pc = "returned"
    /\ Len(thread) = 2
    /\ Cardinality(genLog) = 2
    /\ caller.query_index = 1
    /\ disk.queries = {0}
    /\ caller.exception # PyNone
    /\ disk.annotation_file = <<>>

-----------------------------------------------------------------------------
(* C20: the length-weighted true positives (under SpecLength).             *)

\* the match segments that overlap annotation segment a on both axes
OnBothAxes(a, match) ==
    {m \in 1..Len(match) :
        /\ a.reference_interval \cap match[m].reference_interval # {}
        /\ a.query_interval \cap match[m].query_interval # {}}

\* R: the length of the union of their reference-axis overlaps
ReferenceOverlapLength(a, match) ==
    Cardinality(UNION {a.reference_interval \cap match[m].reference_interval :
                          m \in OnBothAxes(a, match)})

\* the length of the union of their query-axis overlaps, times a's tempo
ScaledQueryOverlapLength(a, match) ==
    RatMul(Int2Rat(Cardinality(
               UNION {a.query_interval \cap match[m].query_interval :
                         m \in OnBothAxes(a, match)})),
           TempoOf(a))

\* Q': that value rounded toward R, up if R exceeds it, otherwise down
RoundedTowardR(a, match) ==
    LET value == ScaledQueryOverlapLength(a, match)
    IN  IF RatLT(value, Int2Rat(ReferenceOverlapLength(a, match)))
        THEN Ceil(value) ELSE Floor(value)

\* min(R, Q')
ExpectedTruePositive(a, match) ==
    Min(ReferenceOverlapLength(a, match), RoundedTowardR(a, match))

\* C20: the length-weighted true positive of an annotation segment is
\* min(R, Q'), R the length of the union of the reference-axis overlaps
\* with the matches that overlap it on both axes and Q' the length of the
\* union of their query-axis overlaps times the segment's tempo ratio,
\* rounded toward R; the pair's true positives are the sum over its
\* annotation segments.
C20_LengthTruePositive ==
    Scored /\ pairOut.kind = "Length" =>
        /\ \A a \in 1..Len(pairIn.annotation) :
              LengthAnnotationPart(pairIn.annotation[a], pairIn.match).tp
                 = ExpectedTruePositive(pairIn.annotation[a], pairIn.match)
        /\ PairResult.tp
              = IntSum([a \in 1..Len(pairIn.annotation) |->
                          ExpectedTruePositive(pairIn.annotation[a],
                                               pairIn.match)])

\* one annotation segment at half tempo whose two reference seconds are
\* matched over one query second: the scaled value 1/2 is rounded up to 1
C20_Witness ==
    /\ pairOut.kind = "Length"
    /\ Len(pairIn.annotation) = 1
    /\ ReferenceOverlapLength(pairIn.annotation[1], pairIn.match) = 2
    /\ ScaledQueryOverlapLength(pairIn.annotation[1], pairIn.match) = Rat(1, 2)
    /\ PairResult.tp = 1

-----------------------------------------------------------------------------
(* C21: the length-weighted false negatives (under SpecLength).            *)

\* the part of a's reference interval outside the double-axis reference
\* overlap union, as a length
MissingReferenceLength(a, match) ==
    Cardinality(a.reference_interval
                \ UNION {a.reference_interval \cap match[m].reference_interval :
                            m \in OnBothAxes(a, match)})

\* the part of a's query interval outside the query overlap union, as a
\* length, times a's tempo ratio
ScaledMissingQueryLength(a, match) ==
    RatMul(Int2Rat(Cardinality(
               a.query_interval
               \ UNION {a.query_interval \cap match[m].query_interval :
                           m \in OnBothAxes(a, match)})),
           TempoOf(a))

\* a ratio rounded toward 0
TowardZero(x) == IF x[1] < 0 THEN -((-x[1]) \div x[2]) ELSE x[1] \div x[2]

ExpectedFalseNegative(a, match) ==
    LET r == MissingReferenceLength(a, match)
        q == TowardZero(ScaledMissingQueryLength(a, match))
    IN  IF r >= q THEN r ELSE q

\* C21: the length-weighted false negative of an annotation segment is the
\* larger of its missing reference length and its missing query length,
\* the latter scaled by the segment's tempo ratio and rounded toward 0;
\* the pair's false negatives are the sum over its annotation segments.
C21_LengthFalseNegative ==
    Scored /\ pairOut.kind = "Length" =>
        /\ \A a \in 1..Len(pairIn.annotation) :
              LengthAnnotationPart(pairIn.annotation[a], pairIn.match).fn
                 = ExpectedFalseNegative(pairIn.annotation[a], pairIn.match)
        /\ PairResult.fn
              = IntSum([a \in 1..Len(pairIn.annotation) |->
                          ExpectedFalseNegative(pairIn.annotation[a],
                                                pairIn.match)])

\* an annotation segment at double tempo, matched on its one reference
\* second and on one of its two query seconds: nothing is missing on the
\* reference axis, the missing query second counts double
C21_Witness ==
    /\ pairOut.kind = "Length"
    /\ Len(pairIn.annotation) = 1
    /\ Len(pairIn.match) = 1
    /\ MissingReferenceLength(pairIn.annotation[1], pairIn.match) = 0
    /\ ScaledMissingQueryLength(pairIn.annotation[1], pairIn.match) = Int2Rat(2)
    /\ PairResult.fn = 2

-----------------------------------------------------------------------------
(* C22: the tempo of a match segment (under SpecLength).                   *)

\* the annotation segments whose query interval meets that of m
OnQueryAxis(m, annotation) ==
    {a \in 1..Len(annotation) :
        annotation[a].query_interval \cap m.query_interval # {}}

\* the largest element of a non-empty set of numbers
Last(S) == CHOOSE x \in S : \A y \in S : y <= x

ExpectedTempo(m, annotation) ==
    LET on == OnQueryAxis(m, annotation)
        reference_length == Cardinality(m.reference_interval)
        query_length == Cardinality(m.query_interval)
    IN  IF on # {} THEN TempoOf(annotation[Last(on)])
        ELSE IF query_length # 0 THEN Rat(reference_length, query_length)
        ELSE Int2Rat(1)

\* C22: in the match pass of the Length evaluator the tempo of a match
\* segment m is that of the last annotation segment, in list order, whose
\* query interval meets m's, whether or not their reference intervals
\* meet; without one it is m's reference length over its query length, or
\* 1 when the query length is 0.
C22_MatchTempo ==
    Scored /\ pairOut.kind = "Length" =>
        \A m \in 1..Len(pairIn.match) :
            LengthMatchPart(pairIn.match[m], pairIn.annotation).tempo
               = ExpectedTempo(pairIn.match[m], pairIn.annotation)

\* two annotation segments of different tempo meet the match on the query
\* axis, the second one not on the reference axis: its tempo is used
C22_Witness ==
    /\ pairOut.kind = "Length"
    /\ Len(pairIn.annotation) = 2
    /\ Len(pairIn.match) = 1
    /\ OnQueryAxis(pairIn.match[1], pairIn.annotation) = {1, 2}
    /\ pairIn.annotation[1].reference_interval
          \cap pairIn.match[1].reference_interval # {}
    /\ pairIn.annotation[2].reference_interval
          \cap pairIn.match[1].reference_interval = {}
    /\ TempoOf(pairIn.annotation[1]) # TempoOf(pairIn.annotation[2])
    /\ LengthMatchPart(pairIn.match[1], pairIn.annotation).tempo
          = TempoOf(pairIn.annotation[2])

-----------------------------------------------------------------------------
(* C23: the length-weighted unknown positives (under SpecLength).          *)

\* the annotation segments that overlap match segment m on both axes
AnnotationsOnBothAxes(m, annotation) ==
    {a \in OnQueryAxis(m, annotation) :
        annotation[a].reference_interval \cap m.reference_interval # {}}

\* (i) the length of the union of their reference-axis overlaps
MatchedReferenceLength(m, annotation) ==
    Cardinality(UNION {annotation[a].reference_interval
                          \cap m.reference_interval :
                          a \in AnnotationsOnBothAxes(m, annotation)})

\* (ii) the length of the union of all query-axis overlaps of m, times the
\* tempo of m, rounded toward m's reference length
QueryOnlyLength(m, annotation) ==
    LET value ==
            RatMul(Int2Rat(Cardinality(
                       UNION {annotation[a].query_interval
                                 \cap m.query_interval :
                                 a \in 1..Len(annotation)})),
                   ExpectedTempo(m, annotation))
    IN  IF RatLT(value, Int2Rat(Cardinality(m.reference_interval)))
        THEN Ceil(value) ELSE Floor(value)

ExpectedUnknownPositive(m, annotation) ==
    LET i == MatchedReferenceLength(m, annotation)
        ii == QueryOnlyLength(m, annotation)
    IN  IF i >= ii THEN i - ii ELSE ii - i

\* C23: the length-weighted unknown positive of a match segment m is the
\* absolute difference between the length of the union of the
\* reference-axis overlaps with the annotations that overlap m on both
\* axes and the length of the union of all query-axis overlaps of m with
\* any annotation, scaled by m's tempo and rounded toward m's reference
\* length; it is 0 when the two agree; the pair's unknown positives are
\* the sum over its match segments.
C23_LengthUnknownPositive ==
    Scored /\ pairOut.kind = "Length" =>
        /\ \A m \in 1..Len(pairIn.match) :
              LET part == LengthMatchPart(pairIn.match[m], pairIn.annotation)
              IN  /\ part.up = ExpectedUnknownPositive(pairIn.match[m],
                                                       pairIn.annotation)
                  /\ MatchedReferenceLength(pairIn.match[m], pairIn.annotation)
                        = QueryOnlyLength(pairIn.match[m], pairIn.annotation)
                     => part.up = 0
        /\ PairResult.up
              = IntSum([m \in 1..Len(pairIn.match) |->
                          ExpectedUnknownPositive(pairIn.match[m],
                                                  pairIn.annotation)])

\* an annotation segment meets the match on the query axis alone: the
\* reference-axis overlap is empty, the query-only second is unknown
C23_Witness ==
    /\ pairOut.kind = "Length"
    /\ Len(pairIn.annotation) = 1
    /\ Len(pairIn.match) = 1
    /\ OnQueryAxis(pairIn.match[1], pairIn.annotation) = {1}
    /\ AnnotationsOnBothAxes(pairIn.match[1], pairIn.annotation) = {}
    /\ pairIn.match[1].reference_interval # {}
    /\ PairResult.up = 1

-----------------------------------------------------------------------------
(* C24: what a scored pair adds to the tag buckets (under Spec).           *)

\* the accumulator of a key, a fresh one when the table has none
Bucket(k, table, key) ==
    IF key \in DOMAIN table THEN table[key] ELSE NewEvaluator(k).all_results

\* the annotation segments of a call whose tags contain T
Carrying(call, T) ==
    {a \in 1..Len(call.annotation) :
        T \in Range(get_tags_from_annotation(call.annotation[a]))}

\* the last n elements of a list
LastN(s, n) == SubSeq(s, Len(s) - n + 1, Len(s))

\* accumulator new is accumulator old after n adds of the one result that
\* took the global accumulator from totalOld to totalNew
AddedTimes(k, old, new, n, totalOld, totalNew) ==
    /\ Len(new.recalls) = Len(old.recalls) + n
    /\ Len(new.precisions) = Len(old.precisions) + n
    /\ SubSeq(new.recalls, 1, Len(old.recalls)) = old.recalls
    /\ SubSeq(new.precisions, 1, Len(old.precisions)) = old.precisions
    /\ \A i \in 1..n :
          /\ LastN(new.recalls, n)[i] = LastN(totalNew.recalls, 1)[1]
          /\ LastN(new.precisions, n)[i] = LastN(totalNew.precisions, 1)[1]
    /\ k # "BoundingBox" =>
          /\ new.tp = old.tp + n * (totalNew.tp - totalOld.tp)
          /\ new.up = old.up + n * (totalNew.up - totalOld.up)
          /\ new.fp = old.fp + n * (totalNew.fp - totalOld.fp)
          /\ new.fn = old.fn + n * (totalNew.fn - totalOld.fn)

\* C24: the scoring of a pair adds the pair's whole result to the bucket of
\* tag T once for every annotation segment of the pair whose tags contain
\* T: k segments carrying T make k adds, two differently tagged segments
\* give the full result to both their buckets, and a bucket whose tag no
\* segment carries is left as it was.
C24_TagBucketAdds ==
    [][Len(calls') = Len(calls) + 1 =>
         LET call == calls'[Len(calls')]
             tags == DOMAIN ev.tag_results \cup DOMAIN ev'.tag_results
                     \cup UNION {Range(get_tags_from_annotation(
                                           call.annotation[a])) :
                                    a \in 1..Len(call.annotation)}
         IN  /\ Adds(ev'.all_results) = Adds(ev.all_results) + 1
             /\ \A T \in tags :
                   LET n == Cardinality(Carrying(call, T))
                   IN  /\ AddedTimes(kind, Bucket(kind, ev.tag_results, T),
                                     Bucket(kind, ev'.tag_results, T), n,
                                     ev.all_results, ev'.all_results)
                       /\ n = 0 /\ T \in DOMAIN ev.tag_results =>
                             ev'.tag_results[T] = ev.tag_results[T]
                       /\ T \in DOMAIN ev'.tag_results <=>
                             n > 0 \/ T \in DOMAIN ev.tag_results]_vars

\* the Length evaluator scored a pair whose two annotation segments both
\* begin their query file and differ in tempo and noise: the bucket of
\* the merge tag got the pair's result twice, the buckets of the tempo and
\* noise tags once
C24_Witness ==
    /\ kind = "Length"
    /\ Len(calls) = 1
    /\ calls[1].annotation = <<ConvertElem(A1), ConvertElem(A2)>>
    /\ calls[1].match # <<>>
    /\ Adds(ev.tag_results[<<"merge_prev:", "begin">>]) = 2
    /\ ev.tag_results[<<"merge_prev:", "begin">>].tp = 2 * ev.all_results.tp
    /\ ev.all_results.tp > 0
    /\ Adds(ev.tag_results[<<"tempo:", "exact">>]) = 1
    /\ Adds(ev.tag_results[<<"noise:", "white">>]) = 1

-----------------------------------------------------------------------------
(* C25: the counts of the three tables (under Spec).                       *)

CountFields == {"tp", "up", "fp", "fn"}

\* the sum of one count over the accumulators of the given keys
RECURSIVE TableSum(_, _, _)
TableSum(table, keys, field) ==
    IF keys = {} THEN 0
    ELSE LET key == CHOOSE x \in keys : TRUE
         IN  table[key][field] + TableSum(table, keys \ {key}, field)

\* the scored pairs of reference r
ScoredPairsOf(r) == {calls[i].pair : i \in {j \in 1..Len(calls) : calls[j].pair[2] = r}}

\* C25: during and after evaluate on a fresh Track or Length evaluator,
\* each of tp, up, fp and fn summed over the per-pair accumulators equals
\* its sum over the per-reference accumulators and equals the global
\* accumulator's count; the per-reference accumulator of r has received as
\* many adds as there are scored pairs with reference r, and there is one
\* for every such reference and for no other id.
C25_TablesAgree ==
    InEvaluate /\ kind \in {"Track", "Length"} =>
        /\ \A field \in CountFields :
              /\ TableSum(ev.pair_results, DOMAIN ev.pair_results, field)
                    = ev.all_results[field]
              /\ TableSum(ev.ref_results, DOMAIN ev.ref_results, field)
                    = ev.all_results[field]
        /\ DOMAIN ev.ref_results = {calls[i].pair[2] : i \in 1..Len(calls)}
        /\ \A r \in DOMAIN ev.ref_results :
              Adds(ev.ref_results[r]) = Cardinality(ScoredPairsOf(r))

\* the Length evaluator has scored three pairs, two of them of reference
\* r1, one with true positives and one with false negatives
C25_Witness ==
    /\ pc = "output"
    /\ kind = "Length"
    /\ Len(calls) = 3
    /\ Adds(ev.ref_results["r1"]) = 2
    /\ ev.pair_results[P1].tp > 0
    /\ ev.pair_results[P2].fn > 0
    /\ ev.ref_results["r1"].fn = ev.pair_results[P1].fn + ev.pair_results[P2].fn
    /\ ev.all_results.tp = ev.pair_results[P1].tp + ev.pair_results[P3].tp

-----------------------------------------------------------------------------
(* C26: the signs of the length-weighted counts (under SpecLength).        *)

\* the tempo of every annotation segment of the input is positive
PositiveTempos ==
    \A a \in 1..Len(pairIn.annotation) :
        get_item_as_int(pairIn.annotation[a], "tempo", 100) > 0

\* C26: for annotation and match lists over integer bounds and with
\* positive tempos, the Length evaluator's tp, up, fp and fn of the pair
\* are non-negative integers, and so are the counts of every segment and
\* of every accumulator of every table.
C26_CountsNonNegative ==
    Scored /\ pairOut.kind = "Length" /\ PositiveTempos =>
        /\ \A field \in CountFields : PairResult[field] \in Nat
        /\ \A x \in Accumulators(pairOut.ev) :
              \A field \in CountFields : x[field] \in Nat
        /\ \A a \in 1..Len(pairIn.annotation) :
              LET part == LengthAnnotationPart(pairIn.annotation[a],
                                               pairIn.match)
              IN  part.tp \in Nat /\ part.fn \in Nat
        /\ \A m \in 1..Len(pairIn.match) :
              LET part == LengthMatchPart(pairIn.match[m], pairIn.annotation)
              IN  part.up \in Nat /\ part.fp \in Nat

\* a pair with all four counts positive, its unknown positives coming from
\* a query-only length above the reference-axis overlap
C26_Witness ==
    /\ pairOut.kind = "Length"
    /\ PositiveTempos
    /\ PairResult.tp > 0
    /\ PairResult.up > 0
    /\ PairResult.fn > 0
    /\ \E m \in 1..Len(pairIn.match) :
          LET part == LengthMatchPart(pairIn.match[m], pairIn.annotation)
          IN  part.overlap_reference_length < part.overlap_query_only_length

-----------------------------------------------------------------------------
(* C27: a pair with match segments only (under SpecLength).                *)

MatchOnly == pairIn.annotation = <<>> /\ pairIn.match # <<>>

\* the sum of the reference-axis lengths of the match segments
MatchReferenceSum ==
    IntSum([m \in 1..Len(pairIn.match) |->
               Cardinality(pairIn.match[m].reference_interval)])

\* the query length of a match segment, scaled by the segment's tempo and
\* rounded toward its reference length
MatchScaledQueryLength(m) ==
    LET reference_length == Cardinality(m.reference_interval)
        query_length == Cardinality(m.query_interval)
        value == RatMul(Int2Rat(query_length), ExpectedTempo(m, <<>>))
    IN  IF RatLT(value, Int2Rat(reference_length))
        THEN Ceil(value) ELSE Floor(value)

\* C27: for a pair with match segments and no annotation segment the
\* Length evaluator reports tp = 0, fn = 0, up = 0 and fp equal to the sum
\* of the match segments' reference-axis lengths: each segment's scaled
\* query length never exceeds its reference length and its false positives
\* are its reference length; the pair's recall is 0, and its precision is
\* 0 when that sum is positive.
C27_MatchOnlyPair ==
    Scored /\ pairOut.kind = "Length" /\ MatchOnly =>
        /\ PairResult.tp = 0
        /\ PairResult.fn = 0
        /\ PairResult.up = 0
        /\ PairResult.fp = MatchReferenceSum
        /\ \A m \in 1..Len(pairIn.match) :
              /\ MatchScaledQueryLength(pairIn.match[m])
                    <= Cardinality(pairIn.match[m].reference_interval)
              /\ LengthMatchPart(pairIn.match[m], <<>>).fp
                    = Cardinality(pairIn.match[m].reference_interval)
        /\ PairResult.recalls = <<Int2Rat(0)>>
        /\ MatchReferenceSum > 0 => PairResult.precisions = <<Int2Rat(0)>>

\* two match segments, the first with a query interval twice as long as
\* its reference interval: the false positives are the two reference
\* lengths
C27_Witness ==
    /\ pairOut.kind = "Length"
    /\ MatchOnly
    /\ Len(pairIn.match) = 2
    /\ Cardinality(pairIn.match[1].reference_interval) = 1
    /\ Cardinality(pairIn.match[1].query_interval) = 2
    /\ Cardinality(pairIn.match[2].reference_interval) = 2
    /\ PairResult.fp = 3
    /\ PairResult.precisions = <<Int2Rat(0)>>

-----------------------------------------------------------------------------
(* C28: the shutdown of the worker pool (under SpecGenFair).               *)

AllDone == \A t \in Threads : thread[t].pc = "done"

\* worker t exists and is at position p
WorkerAt(t, p) == t \in Threads /\ thread[t].pc = p

\* C28: the worker pool always shuts down: a worker whose task raised goes
\* on to task_done and to its next get; the wait on the queue in
\* generate_queries eventually returns; after join_threads has put one
\* None for each thread every worker takes exactly one and exits, none is
\* left in the queue, and join_threads returns.
C28_PoolShutsDown ==
    /\ \A t \in 1..MaxThreads : WorkerAt(t, "except") ~> WorkerAt(t, "get")
    /\ (caller.pc = "join") ~> (caller.pc = "check")
    /\ (caller.pc = "thread_join") ~> (AllDone /\ caller.pc = "returned")
    /\ [](caller.pc = "thread_join" /\ AllDone /\ Len(thread) > 0 =>
             gen.queue.items = <<>>)
    /\ [](caller.pc = "returned" => AllDone)


-----------------------------------------------------------------------------
(* Properties of remove_matches (under SpecFilterFair).                    *)

\* the ids of the rows of the matches file
MatchedIds ==
    UNION {{filter.rows[i][1], filter.rows[i][2]} : i \in 1..Len(filter.rows)}

\* every id in the matches is a key of tracks and no row matches an id to
\* itself
CleanMatches ==
    /\ MatchedIds \subseteq filter.track_list
    /\ \A i \in 1..Len(filter.rows) : filter.rows[i][1] # filter.rows[i][2]

\* two ids that formed a matching pair both remain in tracks
PairRemains ==
    \E i \in 1..Len(filter.rows) :
        {filter.rows[i][1], filter.rows[i][2]} \subseteq filter.tracks

\* counts[x] is the size of matches[x], at least 1, for every remaining x
CountsAgree ==
    /\ DOMAIN filter.counts = DOMAIN filter.matches
    /\ \A x \in DOMAIN filter.counts :
          /\ filter.counts[x] = Cardinality(filter.matches[x])
          /\ filter.counts[x] >= 1

\* x has the most matches
MostMatched(x) ==
    /\ x \in DOMAIN filter.counts
    /\ \A y \in DOMAIN filter.counts : filter.counts[y] <= filter.counts[x]

-----------------------------------------------------------------------------
(* Properties of convert_segment_ranges (under SpecConvert).               *)

\* the row carries both intervals, each [begin, end) of its integer fields
CarriesIntervals(row) ==
    /\ Convertible(row)
    /\ Converted(row)
    /\ row.reference_interval = closedopen(IntOf(row.reference_begin.str),
                                           IntOf(row.reference_end.str))
    /\ row.query_interval = closedopen(IntOf(row.query_begin.str),
                                       IntOf(row.query_end.str))

AllCarryIntervals ==
    \A k \in DOMAIN convert.items :
        \A i \in 1..Len(convert.items[k]) :
            CarriesIntervals(convert.items[k][i])

\* C30: whenever convert_segment_ranges returns normally on a mapping,
\* every segment of every pair carries a reference interval and a query
\* interval equal to [begin, end) of its integer begin and end fields,
\* whatever the ids of the pair keys are, and a second call leaves the
\* mapping as the first call left it.
C30_ConvertedIntervals ==
    convert.pc = "returned" =>
        /\ AllCarryIntervals
        /\ convert.calls = 2 => convert.items = convert.previous
=============================================================================
